---------------------------- MODULE Spec2Model ----------------------------
(***************************************************************************)
(* A model of the nuum agent runtime core:                                 *)
(*   - the NDJSON Server (src/src/jsonrpc/index.ts): the turn scheduler,   *)
(*     the out-of-turn message queue, mid-turn injection and interrupt;    *)
(*   - the long-term memory store (src/src/storage/ltm.ts): create, read,  *)
(*     the compare-and-swap mutations and the queries;                     *)
(*   - the agent loop (src/src/agent/index.ts, runAgent) as the Server      *)
(*     runs it for one turn;                                               *)
(*   - the compaction agent (src/src/temporal/compaction-agent.ts): its    *)
(*     tools, the loops of runCompaction and the tracked worker;           *)
(*   - the recent-history selection of buildSystemPrompt                   *)
(*     (src/src/agent/index.ts);                                           *)
(*   - the token budgets of temporal queries                               *)
(*     (src/src/temporal/query-budget.ts);                                 *)
(*   - the request/response JsonRpcServer (src/unnamed/part_004): run,     *)
(*     cancel and status, and the end of the awaited agent loop.           *)
(*                                                                         *)
(* The Server runs on one JavaScript thread.  A handler runs from one await *)
(* to the next without interruption, so each action below is the code      *)
(* between two awaits.  At an await the handler is suspended: the order in *)
(* which the host resumes a suspended handler and dispatches the next      *)
(* stdin "line" event is not fixed by the code, so both are enabled.  The  *)
(* agent loop (runAgent) is modelled as an environment that was handed the *)
(* abort signal, the event sink and the onBeforeTurn hook, and that may    *)
(* use them in any order before it returns or throws.                      *)
(***************************************************************************)
EXTENDS Naturals, Integers, Sequences, FiniteSets, TLC

\* ------------------------------------------------------------------ bounds

\* User messages read from stdin in one run.
MaxMessages == 3
\* Control requests (interrupt, status) read from stdin in one run.
MaxControls == 1
\* tool_result events the agent loops report to their event sink in one run.
MaxToolResults == 1

\* LTM operations started in one run.
MaxOps == 3

\* The largest version a caller of an LTM mutation expects.
MaxVersion == 2

\* Model calls the model's answers let one runAgent make: the last of them
\* answers without tool calls.
MaxModelCalls == 2

\* Tool calls in one answer of the compaction model.
MaxToolCalls == 1

\* Tool calls in the first answer of the model to runAgent.
MaxAgentToolCalls == 2

\* Summaries stored in table temporal_summaries in one run.
MaxSummaries == 2

\* Messages a main turn appends to the temporal log while a compaction runs.
MaxAppends == 1

\* ------------------------------------------------------------ Server state

VARIABLES
  currentTurn,    \* Server.currentTurn: 0 for null, else the index in turns
  messageQueue,   \* Server.messageQueue: the queued user messages
  processing,     \* Server.processing: the re-entrancy guard of processQueue
  stdout,         \* the NDJSON lines written to stdout by the last step, in order
  turns,          \* every processTurn invocation so far, see TurnState
  received,       \* number of user messages read so far (a message is its arrival number)
  controls,       \* number of control requests read so far
  toolResults,    \* number of tool_result events reported so far
  arrivedDuring,  \* history: message -> the turn that was current when it arrived (0: none)
  consumed,       \* history: how each message left the Server's hands, in order
  hookReturn,     \* what onBeforeTurn returned, when the last step was a call of it
  line,           \* the rejected or blank line the last step read from stdin, if it did
  ltm,            \* the rows of table ltm_entries, in insertion order
  callers,        \* per concurrent caller of the LTM storage: its operation in flight
  ops,            \* calls of the LTM storage made so far
  agentPc,        \* runAgent: where the invocation for the current turn stands
  agentTurn,      \* runAgent: the loop variable turn
  agentMessages,  \* runAgent: messages, the working conversation
  agentResult,    \* runAgent: the answer of the model being handled
  finalResponse,  \* runAgent: finalResponse
  totalInputTokens,   \* runAgent: totalInputTokens
  totalOutputTokens,  \* runAgent: totalOutputTokens
  modelCalls,     \* history: the answers Provider.generate gave in this run, in order
  temporal,       \* storage.temporal: the temporal messages, oldest first
  summaries,      \* storage.temporal: the rows of table temporal_summaries, oldest first
  compaction,     \* runCompaction: its locals, see CompactionIdle
  workers,        \* storage.workers: the rows of table workers, oldest first
  worker,         \* runCompactionWorker: where the invocation stands
  temporalBudget,    \* buildSystemPrompt: config.tokenBudgets.temporalBudget
  selectedMessages,  \* buildSystemPrompt: selectedMessages, once it has run
  blocks,         \* query-budget: the argument blocks
  targetIndex,    \* query-budget: the argument targetIndex
  budget,         \* query-budget: the argument budget, see Finite
  budgeted,       \* query-budget: the function applied and what it returned
  currentRequest, \* JsonRpcServer.currentRequest: 0 for null, else the index in requests
  requests,       \* every run request JsonRpcServer accepted, see RequestState
  responses,      \* the JSON-RPC responses written to stdout by the last step, in order
  rpcLines        \* history: the methods of the JSON-RPC requests read so far (a request's id is its arrival number)

serverVars == <<currentTurn, messageQueue, processing, stdout, turns, received,
                controls, toolResults, arrivedDuring, consumed, hookReturn,
                line>>

ltmVars == <<ltm, callers, ops>>

\* The locals of runAgent.
agentLocals == <<agentPc, agentTurn, agentMessages, agentResult, finalResponse,
                 totalInputTokens, totalOutputTokens, modelCalls>>

agentVars == <<agentLocals, temporal>>

compactionVars == <<summaries, compaction, workers, worker>>

\* The arguments and results of the token-budget functions.
budgetVars == <<temporalBudget, selectedMessages, blocks, targetIndex, budget,
                budgeted>>

\* The fields of JsonRpcServer, its output and the requests it has seen.
rpcVars == <<currentRequest, requests, responses, rpcLines>>

vars == <<serverVars, ltmVars, agentVars, compactionVars, budgetVars, rpcVars>>

\* What an action of the Server leaves alone.
nonServerVars == <<ltmVars, agentVars, compactionVars, budgetVars, rpcVars>>

\* What an action of the LTM storage leaves alone.
nonLtmVars == <<serverVars, agentVars, compactionVars, budgetVars, rpcVars>>

Null == 0

\* hookReturn when the last step was not a call of onBeforeTurn.
NotCalled == "(not called)"

\* line when the last step was not handleLine on a rejected or blank line.
NoLine == "(no line)"

\* interface TurnState, and the position of the processTurn invocation that owns it.
\*   sessionId : the user message the turn was started for (a message carries its own
\*               session_id, so the two are identified)
\*   aborted   : abortController.signal.aborted
\*   numTurns  : TurnState.numTurns
\*   at        : "agent"    awaiting runAgent
\*               "returned" processTurn has returned, its caller has not resumed yet
\*               "done"     the caller's continuation has run
\*   caller    : who awaits this processTurn: "handleUserMessage" or "processQueue"
\*   results   : history: the result messages sent for this turn, in order
\*   roundTrips: history: the tool_result events this turn's agent loop reported
TurnState(m, caller) ==
  [sessionId |-> m, aborted |-> FALSE, numTurns |-> 0, at |-> "agent",
   caller |-> caller, results |-> <<>>, roundTrips |-> 0]

\* resultMessage(sessionId, subtype, durationMs, numTurns): is_error is derived.
resultMessage(sessionId, subtype, numTurns) ==
  [type |-> "result", subtype |-> subtype, is_error |-> (subtype = "error"),
   session_id |-> sessionId, n |-> numTurns]

\* systemMessage(subtype, data): n carries the one number of the payload
\* (position, message_count, queued_messages), session_id the session when given.
systemMessage(subtype, sessionId, n) ==
  [type |-> "system", subtype |-> subtype, is_error |-> FALSE,
   session_id |-> sessionId, n |-> n]

\* Server.send: one more line on stdout.
send(message) == stdout' = <<message>>

\* Turns whose agent loop is executing.
Running == {t \in DOMAIN turns : turns[t].at = "agent"}

\* Turns that have ended while the handler that awaits them has not resumed yet
\* (the scheduler's draining state).
Draining == {t \in DOMAIN turns : turns[t].at = "returned"}


\* --------------------------------------------------------------- LTM state

\* SQL NULL / JavaScript null, for a column or an argument that holds a string.
NULL == "null"

\* type AgentType: the values of createdBy / updatedBy.
AgentType == {"main", "ltm-consolidate", "ltm-reflect"}

\* The agents that call the storage concurrently: the main agent and a
\* background worker, each writing under its own name.
Callers == {"main", "ltm-reflect"}

\* What an operation returned or threw.
\*   kind     : "none" (nothing yet), "entry" (an LTMEntry), "null", "void", "rows",
\*              or the error thrown: "Exists", "ParentNotFound", "Constraint",
\*              "CreateFailed", "NotFound", "Archived", "Conflict"
\*   expected, actual : ConflictError.expectedVersion, ConflictError.actualVersion
\*   rows     : the entry or entries returned
Outcome(kind, rows) == [kind |-> kind, expected |-> 0, actual |-> 0, rows |-> rows]

\* class ConflictError.
ConflictError(expectedVersion, actualVersion) ==
  [kind |-> "Conflict", expected |-> expectedVersion, actual |-> actualVersion,
   rows |-> <<>>]

\* A call that has returned or thrown: its locals are gone, what is kept is
\* what the caller passed and what it got.
Done(call, ret) == [call EXCEPT !.pc = "idle", !.parentPath = NULL, !.ret = ret]

\* A caller with no operation in flight and none made yet.
\*   pc : "idle", or the statement the operation in flight executes next
NoCall ==
  [pc |-> "idle", op |-> "none", slug |-> NULL, parentSlug |-> NULL, title |-> "",
   body |-> "", tags |-> <<>>, expectedVersion |-> 0, parentPath |-> NULL,
   ret |-> Outcome("none", <<>>)]

\* The storage before any call: an empty table.
LtmIdle ==
  /\ ltm = <<>>
  /\ callers = [w \in Callers |-> NoCall]
  /\ ops = 0

\* ------------------------------------------------------------- agent state

\* No answer of the model is being handled.
\*   text            : result.text
\*   toolCalls       : result.toolCalls, each call by its toolName
\*   usage           : result.usage
\*   toolResultParts : the results of the tool calls the for loop has been through
\*   toolResult      : the result of the tool call at hand, once it has one
NoResult ==
  [text |-> "", toolCalls |-> <<>>,
   usage |-> [promptTokens |-> 0, completionTokens |-> 0],
   toolResultParts |-> <<>>, toolResult |-> ""]

\* No runAgent has run yet.
AgentIdle ==
  /\ agentPc = "idle"
  /\ agentTurn = 0
  /\ agentMessages = <<>>
  /\ agentResult = NoResult
  /\ finalResponse = ""
  /\ totalInputTokens = 0
  /\ totalOutputTokens = 0
  /\ modelCalls = <<>>
  /\ temporal = <<>>

\* -------------------------------------------------------- compaction state

\* No tool call has been handled.
\*   toolName, startId, endId, narrative : toolCall.toolName and toolCall.args;
\*   an id is the creation rank of the message it names (the ids the code
\*   mints sort in creation order), 0 an id that names nothing.
NoToolCall ==
  [toolName |-> "", startId |-> 0, endId |-> 0, narrative |-> "",
   keyObservations |-> <<>>]

\* The locals of a runCompaction that has not started.
\*   pc         : "idle", "start", "turn" (at the head of the outer for loop), "inner"
\*                (at the head of the inner while loop), "tools" (in the loop
\*                over response.toolCalls), "end" (past the outer loop),
\*                "returned", "thrown"
\*   target     : config.compactionTarget
\*   turn, innerTurns, turnDone, validIds, result : the locals of these names
\*   pending    : the tool calls of the response that have not been executed
\*   toolCall, output : the last tool call executed for the response being
\*                handled and the tool result it was given
\*   finished   : history: finish_compaction was executed in this outer turn
NoCompaction ==
  [pc |-> "idle", target |-> 0, turn |-> 0, innerTurns |-> 0,
   turnDone |-> FALSE, validIds |-> {}, pending |-> 0,
   result |-> [summariesCreated |-> 0, tokensBefore |-> 0, tokensAfter |-> 0,
               turnsUsed |-> 0],
   toolCall |-> NoToolCall, output |-> "", finished |-> FALSE]

\* No compaction has run yet.
CompactionIdle ==
  /\ summaries = <<>>
  /\ compaction = NoCompaction
  /\ workers = <<>>
  /\ worker = "idle"

\* ----------------------------------------------------- token budget state

\* No prompt has been built and no budget applied.
BudgetIdle ==
  /\ temporalBudget = 0
  /\ selectedMessages = <<>>
  /\ blocks = <<>>
  /\ targetIndex = 0
  /\ budget = [finite |-> TRUE, value |-> 0]
  /\ budgeted = [fn |-> "none", blocks |-> <<>>, truncated |-> FALSE,
                 indices |-> {}]

\* -------------------------------------------------------- JsonRpcServer state

\* JsonRpcServer after its constructor.
RpcIdle ==
  /\ currentRequest = Null
  /\ requests = <<>>
  /\ responses = <<>>
  /\ rpcLines = <<>>

\* ------------------------------------------------------ Server operations

\* processTurn up to its await of runAgent: a fresh TurnState becomes currentTurn.
\* ts is the record of the earlier invocations.
processTurn(ts, userMessage, caller) ==
  /\ turns' = Append(ts, TurnState(userMessage, caller))
  /\ currentTurn' = Len(ts) + 1
  /\ consumed' = Append(consumed, [msg |-> userMessage, how |-> "turn",
                                   turn |-> Len(ts) + 1])

\* A handleUserMessage whose test never sees the running turn.
TurnInProgress_Never == FALSE

\* handleUserMessage's test "if (this.currentTurn)".
TurnInProgress == currentTurn # Null

\* A handleUserMessage that reports the queue length before the append.
handleUserMessage_positionBefore(userMessage) ==
  IF TurnInProgress
  THEN /\ messageQueue' = Append(messageQueue, userMessage)
       /\ send(systemMessage("queued", userMessage, Len(messageQueue)))
       /\ UNCHANGED <<currentTurn, processing, turns, consumed>>
  ELSE /\ processTurn(turns, userMessage, "handleUserMessage")
       /\ stdout' = <<>>
       /\ UNCHANGED <<messageQueue, processing>>

\* handleUserMessage up to its first await: queue the message while a turn runs,
\* else start the turn.
handleUserMessage(userMessage) ==
  IF TurnInProgress
  THEN /\ messageQueue' = Append(messageQueue, userMessage)
       /\ send(systemMessage("queued", userMessage, Len(messageQueue) + 1))
       /\ UNCHANGED <<currentTurn, processing, turns, consumed>>
  ELSE /\ processTurn(turns, userMessage, "handleUserMessage")
       /\ stdout' = <<>>
       /\ UNCHANGED <<messageQueue, processing>>

\* An interrupt that also throws the queued messages away.
handleControlRequest_clearQueue(action) ==
  /\ IF action = "interrupt"
     THEN IF currentTurn # Null
          THEN /\ turns' = [turns EXCEPT ![currentTurn].aborted = TRUE]
               /\ send(systemMessage("interrupted", turns[currentTurn].sessionId, 0))
               /\ messageQueue' = <<>>
          ELSE /\ send(systemMessage("error", Null, 0))
               /\ UNCHANGED <<turns, messageQueue>>
     ELSE /\ send(systemMessage("status",
                    IF currentTurn # Null THEN turns[currentTurn].sessionId ELSE Null,
                    Len(messageQueue)))
          /\ UNCHANGED <<turns, messageQueue>>
  /\ UNCHANGED <<currentTurn, processing, consumed>>

\* handleControlRequest.
handleControlRequest(action) ==
  /\ IF action = "interrupt"
     THEN IF currentTurn # Null
          THEN /\ turns' = [turns EXCEPT ![currentTurn].aborted = TRUE]
               /\ send(systemMessage("interrupted", turns[currentTurn].sessionId, 0))
          ELSE /\ send(systemMessage("error", Null, 0))
               /\ UNCHANGED turns
     ELSE /\ send(systemMessage("status",
                    IF currentTurn # Null THEN turns[currentTurn].sessionId ELSE Null,
                    Len(messageQueue)))
          /\ UNCHANGED turns
  /\ UNCHANGED <<currentTurn, messageQueue, processing, consumed>>

\* A dequeue from the wrong end: messageQueue.pop().
shift_pop(queue) ==
  [next |-> queue[Len(queue)], rest |-> SubSeq(queue, 1, Len(queue) - 1)]

\* messageQueue.shift(): the message taken and the queue left.
shift(queue) == [next |-> Head(queue), rest |-> Tail(queue)]

\* processQueue past its guard: the while loop from its test to the await of the
\* next processTurn, or to the finally that resets the guard.
processQueueLoop(ts) ==
  IF Len(messageQueue) > 0 /\ currentTurn = Null
  THEN /\ messageQueue' = shift(messageQueue).rest
       /\ processTurn(ts, shift(messageQueue).next, "processQueue")
       /\ processing' = TRUE
  ELSE /\ processing' = FALSE
       /\ turns' = ts
       /\ UNCHANGED <<messageQueue, currentTurn, consumed>>

\* A processQueue without its re-entrancy guard.
processQueue_noGuard(ts) == processQueueLoop(ts)

\* processQueue as handleUserMessage calls it: the re-entrancy guard, then the loop.
processQueue(ts) ==
  IF processing
  THEN /\ turns' = ts
       /\ UNCHANGED <<messageQueue, currentTurn, consumed, processing>>
  ELSE processQueueLoop(ts)

\* A drain that copies the queue (slice) instead of removing from it (splice).
\* getPromptFromUserMessage: the prompt text of a user message. Its text is
\* whatever the client sent; here each message carries a text of its own.
getPromptFromUserMessage(m) == "prompt " \o ToString(m)

\* Array.prototype.splice(start, deleteCount): the elements removed and the
\* array left behind.
splice(array, start, deleteCount) ==
  [removed |-> SubSeq(array, start + 1, start + deleteCount),
   left |-> SubSeq(array, 1, start)
              \o SubSeq(array, start + deleteCount + 1, Len(array))]

RECURSIVE join_reversed(_, _)
join_reversed(strings, separator) ==
  IF Len(strings) = 0 THEN ""
  ELSE IF Len(strings) = 1 THEN strings[1]
  ELSE join_reversed(Tail(strings), separator) \o separator \o strings[1]

RECURSIVE join(_, _)
\* Array.prototype.join
join(strings, separator) ==
  IF Len(strings) = 0 THEN ""
  ELSE IF Len(strings) = 1 THEN strings[1]
  ELSE strings[1] \o separator \o join(Tail(strings), separator)

drainQueueForInjection_slice(t) ==
  IF Len(messageQueue) = 0
  THEN /\ stdout' = <<>>
       /\ hookReturn' = NULL
       /\ UNCHANGED <<messageQueue, consumed>>
  ELSE /\ UNCHANGED messageQueue
       /\ send(systemMessage("injected", Null, Len(messageQueue)))
       /\ hookReturn' = ""
       /\ consumed' = consumed \o
            [i \in 1..Len(messageQueue) |->
               [msg |-> messageQueue[i], how |-> "injected", turn |-> t]]

\* drainQueueForInjection, the onBeforeTurn hook of turn t.
drainQueueForInjection(t) ==
  IF Len(messageQueue) = 0
  THEN /\ stdout' = <<>>
       /\ hookReturn' = NULL
       /\ UNCHANGED <<messageQueue, consumed>>
  ELSE LET messages == splice(messageQueue, 0, Len(messageQueue))
           contents == [i \in DOMAIN messages.removed |->
                          getPromptFromUserMessage(messages.removed[i])]
           combined == join(contents, "\n\n")
       IN /\ messageQueue' = messages.left
          /\ send(systemMessage("injected", Null, Len(messages.removed))
                    @@ [content_length |-> Len(combined)])
          /\ hookReturn' = combined
          /\ consumed' = consumed \o
               [i \in DOMAIN messages.removed |->
                  [msg |-> messages.removed[i], how |-> "injected", turn |-> t]]

\* A handleAgentEvent that forwards the tool_result without counting it.
handleAgentEvent_noCount(ts) ==
  IF currentTurn = Null
  THEN /\ stdout' = <<>>
       /\ turns' = ts
  ELSE /\ turns' = ts
       /\ send(systemMessage("tool_result", Null, 0))

\* handleAgentEvent for a tool_result event: counted on whatever turn is current.
\* ts is `turns` with the event recorded in the history of the turn whose agent
\* loop reported it.
handleAgentEvent(ts) ==
  IF currentTurn = Null
  THEN /\ stdout' = <<>>
       /\ turns' = ts
  ELSE /\ turns' = [ts EXCEPT ![currentTurn].numTurns = @ + 1]
       /\ send(systemMessage("tool_result", Null, 0))

\* processTurn after runAgent has returned normally (lines 177-190): the result
\* that is sent, as a sequence of zero or one messages.  Reading
\* this.currentTurn.startTime throws when currentTurn is null, which lands in the
\* catch block.
resultOnReturn(t) ==
  IF currentTurn = Null
  THEN IF turns[t].aborted
       THEN <<>>
       ELSE <<resultMessage(turns[t].sessionId, "error", 0)>>
  ELSE IF ~turns[t].aborted
       THEN <<resultMessage(turns[t].sessionId, "success", turns[currentTurn].numTurns)>>
       ELSE <<resultMessage(turns[t].sessionId, "cancelled", turns[currentTurn].numTurns)>>

\* processTurn's catch block (lines 191-204): the result that is sent.
resultOnThrow(t) ==
  IF turns[t].aborted
  THEN <<>>
  ELSE <<resultMessage(turns[t].sessionId, "error",
                       IF currentTurn = Null THEN 0 ELSE turns[currentTurn].numTurns)>>

\* String.prototype.trim, on lines padded with spaces.
RECURSIVE trimStart(_)
trimStart(l) ==
  IF Len(l) > 0 /\ SubSeq(l, 1, 1) = " " THEN trimStart(SubSeq(l, 2, Len(l))) ELSE l

RECURSIVE trimEnd(_)
trimEnd(l) ==
  IF Len(l) > 0 /\ SubSeq(l, Len(l), Len(l)) = " "
  THEN trimEnd(SubSeq(l, 1, Len(l) - 1))
  ELSE l

trim(l) == trimEnd(trimStart(l))

\* Lines that are not JSON, and lines that are JSON but no input message.
MalformedJson == {"{oops"}

SchemaViolating == {"{\"type\":\"nope\"}"}

\* parseInputMessage(line): the error of a line that is malformed or violates
\* the input schema, else the message.
parseInputMessage(l) ==
  IF l \in MalformedJson THEN [error |-> "Parse"]
  ELSE IF l \in SchemaViolating THEN [error |-> "Invalid"]
  ELSE [message |-> l]

\* A handleLine that drops a rejected line without a word.
handleLine_silent(l) ==
  /\ stdout' = <<>>
  /\ UNCHANGED <<currentTurn, messageQueue, processing, turns, consumed>>

\* handleLine for a line that carries no input message: a blank line is
\* skipped, a line parseInputMessage rejects is answered with a system error.
handleLine(l) ==
  LET trimmed == trim(l)
      parseResult == parseInputMessage(trimmed)
  IN /\ \/ /\ trimmed = ""
            /\ stdout' = <<>>
         \/ /\ trimmed # ""
            /\ "error" \in DOMAIN parseResult
            /\ send(systemMessage("error", Null, 0)
                      @@ [message |-> parseResult.error])
     /\ UNCHANGED <<currentTurn, messageQueue, processing, turns, consumed>>

\* ---------------------------------------------------------- Server actions

\* A "line" event carrying a user message.
UserLine ==
  /\ UNCHANGED nonServerVars
  /\ hookReturn' = NotCalled
  /\ line' = NoLine
  /\ received < MaxMessages
  /\ received' = received + 1
  /\ arrivedDuring' = Append(arrivedDuring, currentTurn)
  /\ handleUserMessage(received + 1)
  /\ UNCHANGED <<controls, toolResults>>

\* A "line" event carrying a control request.
ControlLine ==
  /\ UNCHANGED nonServerVars
  /\ hookReturn' = NotCalled
  /\ line' = NoLine
  /\ controls < MaxControls
  /\ controls' = controls + 1
  /\ \E action \in {"interrupt", "status"} : handleControlRequest(action)
  /\ UNCHANGED <<received, toolResults, arrivedDuring>>

\* A "line" event carrying no input message: blank, malformed or rejected by
\* the schema.
RejectedLines == {"  ", " {oops", "{\"type\":\"nope\"} "}

InvalidLine ==
  /\ UNCHANGED nonServerVars
  /\ hookReturn' = NotCalled
  /\ \E l \in RejectedLines :
       /\ line' = l
       /\ handleLine(l)
  /\ UNCHANGED <<received, controls, toolResults, arrivedDuring>>

\* The agent loop of turn t reports a tool_result to its event sink.
AgentToolResult(t) ==
  /\ UNCHANGED nonServerVars
  /\ hookReturn' = NotCalled
  /\ line' = NoLine
  /\ t \in Running
  /\ toolResults < MaxToolResults
  /\ toolResults' = toolResults + 1
  /\ handleAgentEvent([turns EXCEPT ![t].roundTrips = @ + 1])
  /\ UNCHANGED <<currentTurn, messageQueue, processing, received, controls,
                 arrivedDuring, consumed>>

\* The agent loop of turn t calls its onBeforeTurn hook.
AgentBeforeTurn(t) ==
  /\ UNCHANGED nonServerVars
  /\ line' = NoLine
  /\ t \in Running
  /\ drainQueueForInjection(t)
  /\ UNCHANGED <<currentTurn, processing, turns, received, controls, toolResults,
                 arrivedDuring>>

\* runAgent of turn t returns: processTurn sends the result and its finally block
\* clears currentTurn.
AgentReturn(t) ==
  /\ UNCHANGED nonServerVars
  /\ hookReturn' = NotCalled
  /\ line' = NoLine
  /\ t \in Running
  /\ stdout' = resultOnReturn(t)
  /\ currentTurn' = Null
  /\ turns' = [turns EXCEPT ![t].at = "returned", ![t].results = @ \o resultOnReturn(t)]
  /\ UNCHANGED <<messageQueue, processing, received, controls, toolResults,
                 arrivedDuring, consumed>>

\* runAgent of turn t throws: processTurn's catch block, then its finally block.
AgentThrow(t) ==
  /\ UNCHANGED nonServerVars
  /\ hookReturn' = NotCalled
  /\ line' = NoLine
  /\ t \in Running
  /\ stdout' = resultOnThrow(t)
  /\ currentTurn' = Null
  /\ turns' = [turns EXCEPT ![t].at = "returned", ![t].results = @ \o resultOnThrow(t)]
  /\ UNCHANGED <<messageQueue, processing, received, controls, toolResults,
                 arrivedDuring, consumed>>

\* A handleUserMessage that returns after its turn without calling processQueue.
Continue_noDrain(t) ==
  /\ UNCHANGED nonServerVars
  /\ hookReturn' = NotCalled
  /\ line' = NoLine
  /\ t \in DOMAIN turns
  /\ turns[t].at = "returned"
  /\ IF turns[t].caller = "handleUserMessage"
     THEN /\ turns' = [turns EXCEPT ![t].at = "done"]
          /\ UNCHANGED <<messageQueue, currentTurn, consumed, processing>>
     ELSE processQueueLoop([turns EXCEPT ![t].at = "done"])
  /\ stdout' = <<>>
  /\ UNCHANGED <<received, controls, toolResults, arrivedDuring>>

\* The continuation of whoever awaited processTurn of turn t: handleUserMessage
\* goes on to processQueue, processQueue goes round its loop.
Continue(t) ==
  /\ UNCHANGED nonServerVars
  /\ hookReturn' = NotCalled
  /\ line' = NoLine
  /\ t \in DOMAIN turns
  /\ turns[t].at = "returned"
  /\ IF turns[t].caller = "handleUserMessage"
     THEN processQueue([turns EXCEPT ![t].at = "done"])
     ELSE processQueueLoop([turns EXCEPT ![t].at = "done"])
  /\ stdout' = <<>>
  /\ UNCHANGED <<received, controls, toolResults, arrivedDuring>>

ServerInit ==
  /\ currentTurn = Null
  /\ messageQueue = <<>>
  /\ processing = FALSE
  /\ stdout = <<>>
  /\ turns = <<>>
  /\ received = 0
  /\ controls = 0
  /\ toolResults = 0
  /\ arrivedDuring = <<>>
  /\ consumed = <<>>
  /\ hookReturn = NotCalled
  /\ line = NoLine

TurnIds == 1..MaxMessages

Init == ServerInit /\ LtmIdle /\ AgentIdle /\ CompactionIdle /\ BudgetIdle /\ RpcIdle

Next ==
  \/ UserLine
  \/ ControlLine
  \/ \E t \in TurnIds : AgentToolResult(t)
  \/ \E t \in TurnIds : AgentBeforeTurn(t)
  \/ \E t \in TurnIds : AgentReturn(t)
  \/ \E t \in TurnIds : AgentThrow(t)
  \/ \E t \in TurnIds : Continue(t)

Spec == Init /\ [][Next]_vars

\* The Server reading lines of every kind, among them blank and rejected ones,
\* while turns start, drain the queue, are interrupted, return or throw and
\* hand over to the queue; the agent loops report no tool results here.
NextLines ==
  \/ UserLine
  \/ ControlLine
  \/ InvalidLine
  \/ \E t \in TurnIds : AgentBeforeTurn(t)
  \/ \E t \in TurnIds : AgentReturn(t)
  \/ \E t \in TurnIds : AgentThrow(t)
  \/ \E t \in TurnIds : Continue(t)

SpecLines == Init /\ [][NextLines]_vars

\* The turn scheduler alone: lines arrive, turns start, drain the queue, are
\* interrupted, return or throw and hand over to the queue.
NextSchedule ==
  \/ UserLine
  \/ ControlLine
  \/ \E t \in TurnIds : AgentBeforeTurn(t)
  \/ \E t \in TurnIds : AgentReturn(t)
  \/ \E t \in TurnIds : AgentThrow(t)
  \/ \E t \in TurnIds : Continue(t)

SpecSchedule == Init /\ [][NextSchedule]_vars

\* Every agent loop ends, by returning or throwing, and the host resumes every
\* handler whose awaited processTurn has settled; stdin is under no obligation
\* to deliver anything.
FairSpecSchedule ==
  /\ SpecSchedule
  /\ WF_vars(\E t \in TurnIds : AgentReturn(t) \/ AgentThrow(t))
  /\ WF_vars(\E t \in TurnIds : Continue(t))

\* ------------------------------------------------------------ Server claims

\* C1: at most one turn is executing at any time: a turn is only started when
\* currentTurn is null, and while a turn's agent loop runs currentTurn is that turn.
C1_AtMostOneTurn ==
  /\ [](/\ Cardinality(Running) <= 1
        /\ \A t \in Running : currentTurn = t)
  /\ [][Len(turns') > Len(turns) => currentTurn = Null]_vars

\* C1 witness: a turn started by processQueue runs while another message waits.
C1_Witness ==
  \E t \in Running :
    /\ turns[t].caller = "processQueue"
    /\ currentTurn = t
    /\ Len(messageQueue) > 0

\* C2 (as claimed): every turn has sent exactly one result message once its agent
\* loop has ended, however it ended, and none before.
C2_ExactlyOneResult ==
  \A t \in DOMAIN turns :
    Len(turns[t].results) = IF turns[t].at = "agent" THEN 0 ELSE 1

C3_Witness ==
  \E t \in Running :
    /\ turns[t].caller = "processQueue"
    /\ Len(messageQueue) > 0
    /\ arrivedDuring[Head(messageQueue)] < t
    /\ turns[t].sessionId < Head(messageQueue)

\* C4 (as claimed): a message received while turn T is running is injected during
\* T or is the prompt of turn T+1.
C4_InjectedOrNextTurn ==
  \A i \in DOMAIN consumed :
    LET c == consumed[i]
        T == arrivedDuring[c.msg]
    IN  T # Null =>
          \/ c.how = "injected" /\ c.turn = T
          \/ c.how = "turn" /\ c.turn = T + 1

\* C4 (amended): a message received while turn T is running is consumed exactly
\* once, by an injection during T or during a later turn, or as the prompt of a
\* later turn; and the messages received while a turn was running are consumed in
\* the order they arrived.
C4_InjectedOrLaterTurn ==
  /\ \A i, j \in DOMAIN consumed : consumed[i].msg = consumed[j].msg => i = j
  /\ \A i \in DOMAIN consumed :
       LET c == consumed[i]
           T == arrivedDuring[c.msg]
       IN  T # Null =>
             \/ c.how = "injected" /\ c.turn >= T
             \/ c.how = "turn" /\ c.turn > T
  /\ \A i, j \in DOMAIN consumed :
       /\ i < j
       /\ arrivedDuring[consumed[i].msg] # Null
       /\ arrivedDuring[consumed[j].msg] # Null
       => consumed[i].msg < consumed[j].msg

\* C4 witness: a message received during turn T that was neither injected during T
\* nor the prompt of turn T+1.
C4_Witness ==
  \E i \in DOMAIN consumed :
    LET c == consumed[i]
        T == arrivedDuring[c.msg]
    IN  /\ T # Null
        /\ \/ c.how = "injected" /\ c.turn > T
           \/ c.how = "turn" /\ c.turn > T + 1

\* C5 (as claimed): a turn that was interrupted ends with exactly one result, whose
\* subtype is cancelled and whose is_error is false.
C5_InterruptedEndsCancelled ==
  \A t \in DOMAIN turns :
    turns[t].aborted /\ turns[t].at # "agent" =>
      /\ Len(turns[t].results) = 1
      /\ turns[t].results[1].subtype = "cancelled"
      /\ turns[t].results[1].is_error = FALSE

\* C14: the step that handles an interrupt sets the abort flag of the current
\* turn and changes nothing else of the Server: the queue, the other turns and
\* the turn's other fields stay as they were; a queued message is never lost
\* (every message read is the prompt of a turn, or was injected, or is still in
\* the queue) and whenever a message is queued a turn is running or a handler
\* that goes on to processQueue is waiting to resume; every turn starts with its
\* abort flag clear, whatever was interrupted before.
C14_InterruptCancelsCurrentTurnOnly ==
  /\ [][( /\ controls' = controls + 1
          /\ stdout'[1].subtype # "status" )
        => /\ UNCHANGED <<messageQueue, currentTurn, processing, consumed>>
           /\ Len(turns') = Len(turns)
           /\ \A t \in DOMAIN turns :
                turns'[t] = IF t = currentTurn
                            THEN [turns[t] EXCEPT !.aborted = TRUE]
                            ELSE turns[t]
       ]_vars
  /\ [][Len(turns') > Len(turns) => ~turns'[Len(turns')].aborted]_vars
  /\ [](\A m \in 1..received :
          \/ \E i \in DOMAIN messageQueue : messageQueue[i] = m
          \/ \E i \in DOMAIN consumed : consumed[i].msg = m)
  /\ [](messageQueue # <<>> => Running \cup Draining # {})

\* A turn was interrupted, and a message that arrived during it has since been
\* started as a turn of its own, not aborted.
C14_Witness ==
  \E t, u \in DOMAIN turns :
    /\ turns[t].aborted
    /\ u > t
    /\ ~turns[u].aborted
    /\ turns[u].caller = "processQueue"
    /\ arrivedDuring[turns[u].sessionId] = t

\* C11: a call of drainQueueForInjection with a non-empty queue leaves the
\* queue empty, writes exactly one line, a system "injected" event whose
\* message_count is the number of messages that were queued, and returns the
\* string made of their prompts in queue order (which is arrival order), each
\* two neighbours separated by "\n\n"; a call with an empty queue returns null,
\* writes nothing and changes nothing.
C11_DrainAllInOneStep ==
  [][hookReturn' # NotCalled =>
       IF Len(messageQueue) = 0
       THEN /\ hookReturn' = NULL
            /\ stdout' = <<>>
            /\ UNCHANGED <<currentTurn, messageQueue, processing, turns,
                           consumed>>
       ELSE LET n == Len(messageQueue)
                text(i) == getPromptFromUserMessage(messageQueue[i])
                at[i \in 1..n] ==
                  IF i = 1 THEN 0 ELSE at[i - 1] + Len(text(i - 1)) + 2
                r == hookReturn'
            IN /\ messageQueue' = <<>>
               /\ Len(stdout') = 1
               /\ stdout'[1].type = "system"
               /\ stdout'[1].subtype = "injected"
               /\ stdout'[1].n = n
               /\ Len(r) = at[n] + Len(text(n))
               /\ \A i \in 1..n :
                    /\ SubSeq(r, at[i] + 1, at[i] + Len(text(i))) = text(i)
                    /\ i > 1 => SubSeq(r, at[i] - 1, at[i]) = "\n\n"
               /\ \A i, j \in 1..n :
                    i < j => messageQueue[i] < messageQueue[j]
  ]_vars

\* The hook has just returned two queued messages as one string.
C11_Witness ==
  /\ hookReturn = "prompt 2\n\nprompt 3"
  /\ messageQueue = <<>>
  /\ Len(stdout) = 1
  /\ stdout[1].n = 2

\* C27: a user message that arrives while a turn is running starts no turn: it
\* is appended at the tail of the queue, the running turn and the processing
\* flag stay as they were, and the one line written is a system "queued" event
\* whose position is the length of the queue after the append (1 when the
\* queue was empty).
C27_QueuedAtTailWithPosition ==
  [][(received' = received + 1 /\ currentTurn # Null)
       => /\ messageQueue' = Append(messageQueue, received')
          /\ stdout' = <<systemMessage("queued", received', Len(messageQueue'))>>
          /\ (messageQueue = <<>> => stdout'[1].n = 1)
          /\ UNCHANGED <<currentTurn, turns, processing, consumed>>
    ]_vars

\* A second message has just been queued behind another one during a running
\* turn, and was told position 2.
C27_Witness ==
  /\ currentTurn # Null
  /\ Len(messageQueue) = 2
  /\ Len(stdout) = 1
  /\ stdout[1].subtype = "queued"
  /\ stdout[1].n = 2
  /\ stdout[1].session_id = messageQueue[2]

\* C28: the num_turns of every result sent for a turn is the number of tool
\* round-trips that turn's agent loop completed: 0 when it used no tool, 1 after
\* one round-trip; every turn starts counting from 0 whatever the turns before
\* it counted, and only a tool_result event changes a count, by one, on the
\* turn that reported it.
C28_NumTurnsCountsRoundTrips ==
  /\ [](\A t \in DOMAIN turns :
          /\ turns[t].numTurns = turns[t].roundTrips
          /\ \A i \in DOMAIN turns[t].results :
               turns[t].results[i].n = turns[t].roundTrips)
  /\ [][Len(turns') > Len(turns) => turns'[Len(turns')].numTurns = 0]_vars
  /\ [][\A t \in DOMAIN turns :
          turns'[t].numTurns =
            turns[t].numTurns +
              (IF toolResults' # toolResults /\ t \in Running THEN 1 ELSE 0)]_vars

\* A turn that made one tool round-trip reported 1, and a later turn that made
\* none reported 0.
C28_Witness ==
  \E t, u \in DOMAIN turns :
    /\ t < u
    /\ turns[t].roundTrips = 1
    /\ Len(turns[t].results) = 1
    /\ turns[t].results[1].n = 1
    /\ turns[u].roundTrips = 0
    /\ Len(turns[u].results) = 1
    /\ turns[u].results[1].n = 0
    /\ turns[u].results[1].subtype = "success"

\* C26: a line that is not blank and that parseInputMessage rejects, as
\* malformed JSON or as violating the input schema, writes exactly one line, a
\* system "error" event with the parser's message, and changes nothing else:
\* currentTurn, the queue, the processing flag and every turn, running or not,
\* stay as they were; after it a user message is still queued or started and a
\* control request still answered.
C26_RejectedLineOnlyReportsError ==
  /\ [][(line' # NoLine /\ trim(line') # "")
         => /\ Len(stdout') = 1
            /\ stdout'[1].type = "system"
            /\ stdout'[1].subtype = "error"
            /\ stdout'[1].message =
                 (IF trim(line') \in MalformedJson THEN "Parse" ELSE "Invalid")
            /\ UNCHANGED <<currentTurn, messageQueue, processing, turns,
                           consumed, received, controls>>
      ]_vars
  /\ [][(line # NoLine /\ received' = received + 1)
         => \/ messageQueue' = Append(messageQueue, received')
            \/ /\ Len(turns') = Len(turns) + 1
               /\ turns'[Len(turns')].sessionId = received'
      ]_vars
  /\ [][(line # NoLine /\ controls' = controls + 1) => Len(stdout') = 1]_vars

\* A malformed line has just been answered while a turn is running with a
\* message queued behind it.
C26_Witness ==
  /\ line = " {oops"
  /\ Len(stdout) = 1
  /\ stdout[1].subtype = "error"
  /\ currentTurn # Null
  /\ turns[currentTurn].at = "agent"
  /\ Len(messageQueue) = 1

\* C33: processing is true exactly while one invocation of processQueue is in
\* its loop, awaiting the turn it dequeued or about to resume after it, and there
\* is never more than one such invocation, whether its turns return or throw; an
\* invocation of processQueue that finds processing true returns at once: it
\* dequeues nothing, starts no turn and leaves the flag as it is.
C33_ProcessQueueNotReentrant ==
  /\ [](LET draining == {t \in DOMAIN turns :
                           turns[t].caller = "processQueue" /\ turns[t].at # "done"}
        IN /\ Cardinality(draining) <= 1
           /\ processing <=> draining # {})
  /\ [][\A t \in DOMAIN turns :
          ( /\ turns[t].caller = "handleUserMessage"
            /\ turns[t].at = "returned"
            /\ turns'[t].at = "done"
            /\ processing )
          => /\ messageQueue' = messageQueue
             /\ currentTurn' = currentTurn
             /\ processing' = processing
             /\ consumed' = consumed
             /\ turns' = [turns EXCEPT ![t].at = "done"]
       ]_vars

\* processQueue was invoked while another invocation was draining: a turn
\* started by handleUserMessage has handed over to processQueue while an
\* earlier turn of the drain loop had ended and its loop had not resumed.
C33_Witness ==
  \E t, d \in DOMAIN turns :
    /\ d < t
    /\ turns[d].caller = "processQueue"
    /\ turns[d].at = "returned"
    /\ turns[t].caller = "handleUserMessage"
    /\ turns[t].at = "done"
    /\ processing
    /\ currentTurn = Null

\* C32: when every turn ends and the host resumes every suspended handler, a
\* user message that is in the queue is eventually injected into a turn or run
\* as a turn of its own, and from some moment on the Server is idle for good:
\* currentTurn is null, the queue is empty and processing is false.
C32_QueueEventuallyDrained ==
  /\ \A m \in 1..MaxMessages :
       (\E i \in DOMAIN messageQueue : messageQueue[i] = m)
         ~> (\E k \in DOMAIN consumed :
               consumed[k].msg = m /\ consumed[k].how \in {"injected", "turn"})
  /\ <>[](currentTurn = Null /\ messageQueue = <<>> /\ processing = FALSE)

\* The Server is idle after a message that had been queued during a turn was
\* run by the drain loop as a turn of its own.
C32_Witness ==
  /\ currentTurn = Null /\ messageQueue = <<>> /\ processing = FALSE
  /\ \E t \in DOMAIN turns :
       /\ turns[t].caller = "processQueue"
       /\ turns[t].at = "done"
       /\ arrivedDuring[turns[t].sessionId] # Null

\* ------------------------------------------------------------ LTM storage
\* src/src/storage/ltm.ts. Every statement sent to the database is one atomic
\* step; a call that sends several statements awaits between them, and the
\* statements of concurrent callers interleave there. Timestamps are abstracted
\* to the single value Now.

Slugs == {"a", "b"}

Titles == {"Ab"}

Bodies == {"a", "B"}

TagLists == {<<>>, <<"t">>}

Now == "now"

\* The row create() inserts (LTMEntryInsert).
LTMEntryInsert(input, path) ==
  [slug |-> input.slug, parentSlug |-> input.parentSlug, path |-> path,
   title |-> input.title, body |-> input.body, tags |-> input.tags,
   links |-> <<>>, version |-> 1, createdBy |-> input.createdBy,
   updatedBy |-> input.createdBy, archivedAt |-> NULL]

\* .limit(1)
limit1(rows) == IF Len(rows) > 0 THEN <<rows[1]>> ELSE <<>>

\* select().from(ltmEntries).where(eq(ltmEntries.slug, slug)).limit(1)
selectBySlug(table, slug) == limit1(SelectSeq(table, LAMBDA r : r.slug = slug))

buildPath_root(slug, parentPath) == "/" \o slug

\* function buildPath
buildPath(slug, parentPath) ==
  IF parentPath = NULL THEN "/" \o slug ELSE parentPath \o "/" \o slug

read_any(table, slug) ==
  LET result == selectBySlug(table, slug)
  IN IF Len(result) > 0 THEN Outcome("entry", result) ELSE Outcome("null", <<>>)

\* read(slug): the entry, or null when it is missing or archived.
read(table, slug) ==
  LET result == limit1(SelectSeq(table,
                         LAMBDA r : r.slug = slug /\ r.archivedAt = NULL))
  IN IF Len(result) > 0 THEN Outcome("entry", result) ELSE Outcome("null", <<>>)

\* The insert violates the table's PRIMARY KEY (slug).
primaryKeyTaken(table, slug) == \E i \in DOMAIN table : table[i].slug = slug

\* create(input), first statement: is the slug taken?
create(w, input) ==
  LET existing == selectBySlug(ltm, input.slug)
      call == [NoCall EXCEPT !.op = "create", !.slug = input.slug,
                             !.parentSlug = input.parentSlug,
                             !.title = input.title, !.body = input.body,
                             !.tags = input.tags]
  IN /\ callers' = [callers EXCEPT ![w] =
          IF Len(existing) > 0
          THEN Done(call, Outcome("Exists", <<>>))
          ELSE [call EXCEPT !.pc = IF input.parentSlug # NULL
                                   THEN "create:parent" ELSE "create:insert"]]
     /\ UNCHANGED ltm

\* create(input), second statement: the parent's path.
createParent(w) ==
  LET parent == selectBySlug(ltm, callers[w].parentSlug)
  IN /\ callers' = [callers EXCEPT ![w] =
          IF Len(parent) = 0
          THEN Done(@, Outcome("ParentNotFound", <<>>))
          ELSE [@ EXCEPT !.pc = "create:insert", !.parentPath = parent[1].path]]
     /\ UNCHANGED ltm

\* create(input), third statement: the insert.
createInsert(w) ==
  LET c == callers[w]
      input == [slug |-> c.slug, parentSlug |-> c.parentSlug, title |-> c.title,
                body |-> c.body, tags |-> c.tags, createdBy |-> w]
      entry == LTMEntryInsert(input, buildPath(c.slug, c.parentPath))
  IN IF primaryKeyTaken(ltm, c.slug)
     THEN /\ callers' = [callers EXCEPT ![w] =
               Done(@, Outcome("Constraint", <<>>))]
          /\ UNCHANGED ltm
     ELSE /\ ltm' = Append(ltm, entry)
          /\ callers' = [callers EXCEPT ![w].pc = "create:read"]

\* create(input), last statement: read the created entry back.
createRead(w) ==
  LET created == read(ltm, callers[w].slug)
  IN /\ callers' = [callers EXCEPT ![w] =
          Done(@, IF created.kind = "null"
                  THEN Outcome("CreateFailed", <<>>) ELSE created)]
     /\ UNCHANGED ltm

\* A WHERE clause that does not test archivedAt.
casWhere_archivedToo(r, slug, expectedVersion) ==
  r.slug = slug /\ r.version = expectedVersion

casWhere_anyVersion(r, slug, expectedVersion) ==
  r.slug = slug /\ r.archivedAt = NULL

\* The WHERE clause of the three mutations: slug, version and not archived.
casWhere(r, slug, expectedVersion) ==
  r.slug = slug /\ r.version = expectedVersion /\ r.archivedAt = NULL

\* db.update(ltmEntries).set(..).where(..).returning(): the table after the
\* statement and the rows it changed. `matched` are the positions of the rows
\* the WHERE clause selects, `changed` what the SET clause makes of each row.
updateReturning(table, matched, changed) ==
  [table |-> [i \in DOMAIN table |->
                IF i \in matched THEN changed[i] ELSE table[i]],
   result |-> LET hit == SelectSeq([i \in DOMAIN table |->
                                     [matched |-> i \in matched,
                                      row |-> changed[i]]],
                                   LAMBDA x : x.matched)
              IN [k \in DOMAIN hit |-> hit[k].row]]

updateSet_sameVersion(r, body, expectedVersion, updatedBy) ==
  [r EXCEPT !.body = body, !.updatedBy = updatedBy]

\* The SET clause of update.
updateSet(r, body, expectedVersion, updatedBy) ==
  [r EXCEPT !.body = body, !.version = expectedVersion + 1,
            !.updatedBy = updatedBy]

\* The SET clause of updateTags.
updateTagsSet(r, tags, expectedVersion, updatedBy) ==
  [r EXCEPT !.tags = tags, !.version = expectedVersion + 1,
            !.updatedBy = updatedBy]

\* An archive that also detaches the entry from its parent.
archiveSet_detached(r, expectedVersion) ==
  [r EXCEPT !.archivedAt = Now, !.version = expectedVersion + 1,
            !.parentSlug = NULL, !.path = "/" \o r.slug]

\* The SET clause of archive.
archiveSet(r, expectedVersion) ==
  [r EXCEPT !.archivedAt = Now, !.version = expectedVersion + 1]

\* What a mutation does with the outcome of its UPDATE statement: return the
\* changed row (nothing, for archive), or go on to ask why no row matched.
afterUpdate(w, call, u, returns) ==
  /\ ltm' = u.table
  /\ callers' = [callers EXCEPT ![w] =
       IF Len(u.result) = 0
       THEN [call EXCEPT !.pc = "why"]
       ELSE Done(call, IF returns THEN Outcome("entry", <<u.result[1]>>)
                                  ELSE Outcome("void", <<>>))]

\* update(slug, body, expectedVersion, updatedBy): the conditional UPDATE.
update(w, slug, body, expectedVersion, updatedBy) ==
  LET matched == {i \in DOMAIN ltm : casWhere(ltm[i], slug, expectedVersion)}
      changed == [i \in DOMAIN ltm |->
                    updateSet(ltm[i], body, expectedVersion, updatedBy)]
      call == [NoCall EXCEPT !.op = "update", !.slug = slug, !.body = body,
                             !.expectedVersion = expectedVersion]
  IN afterUpdate(w, call, updateReturning(ltm, matched, changed), TRUE)

\* updateTags(slug, tags, expectedVersion, updatedBy): the conditional UPDATE.
updateTags(w, slug, tags, expectedVersion, updatedBy) ==
  LET matched == {i \in DOMAIN ltm : casWhere(ltm[i], slug, expectedVersion)}
      changed == [i \in DOMAIN ltm |->
                    updateTagsSet(ltm[i], tags, expectedVersion, updatedBy)]
      call == [NoCall EXCEPT !.op = "updateTags", !.slug = slug, !.tags = tags,
                             !.expectedVersion = expectedVersion]
  IN afterUpdate(w, call, updateReturning(ltm, matched, changed), TRUE)

\* archive(slug, expectedVersion): the conditional UPDATE.
archive(w, slug, expectedVersion) ==
  LET matched == {i \in DOMAIN ltm : casWhere(ltm[i], slug, expectedVersion)}
      changed == [i \in DOMAIN ltm |-> archiveSet(ltm[i], expectedVersion)]
      call == [NoCall EXCEPT !.op = "archive", !.slug = slug,
                             !.expectedVersion = expectedVersion]
  IN afterUpdate(w, call, updateReturning(ltm, matched, changed), FALSE)

whyFailed_expected(current, expectedVersion) ==
  IF Len(current) = 0 THEN Outcome("NotFound", <<>>)
  ELSE IF current[1].archivedAt # NULL THEN Outcome("Archived", <<>>)
  ELSE ConflictError(expectedVersion, expectedVersion)

\* The error a mutation throws when its UPDATE matched no row, from the row it
\* reads then.
whyFailed(current, expectedVersion) ==
  IF Len(current) = 0 THEN Outcome("NotFound", <<>>)
  ELSE IF current[1].archivedAt # NULL THEN Outcome("Archived", <<>>)
  ELSE ConflictError(expectedVersion, current[1].version)

\* update / updateTags / archive, second statement: check why the update failed.
checkWhy(w) ==
  LET current == selectBySlug(ltm, callers[w].slug)
  IN /\ callers' = [callers EXCEPT ![w] =
          Done(@, whyFailed(current, @.expectedVersion))]
     /\ UNCHANGED ltm

\* --------------------------------------------------------- LTM queries

\* String.prototype.startsWith
startsWith(s, prefix) ==
  Len(prefix) <= Len(s) /\ SubSeq(s, 1, Len(prefix)) = prefix

\* String.prototype.includes
includes(s, q) ==
  \E i \in 1..(Len(s) + 1) :
    i + Len(q) - 1 <= Len(s) /\ SubSeq(s, i, i + Len(q) - 1) = q

\* The tail of a string.
rest(s, n) == SubSeq(s, n + 1, Len(s))

\* The code units the model's strings are written with, in ascending order.
CodeUnits == "%*/ABabt"

codeOf(c) == CHOOSE i \in 1..Len(CodeUnits) : SubSeq(CodeUnits, i, i) = c

lowerOf(c) == IF c = "A" THEN "a" ELSE IF c = "B" THEN "b" ELSE c

RECURSIVE toLowerCase(_)
\* String.prototype.toLowerCase
toLowerCase(s) ==
  IF s = "" THEN "" ELSE lowerOf(SubSeq(s, 1, 1)) \o toLowerCase(rest(s, 1))

RECURSIVE replaceAll(_, _, _)
\* String.prototype.replace with a global pattern for the literal `from`.
replaceAll(s, from, to) ==
  IF s = "" THEN ""
  ELSE IF startsWith(s, from) THEN to \o replaceAll(rest(s, Len(from)), from, to)
  ELSE SubSeq(s, 1, 1) \o replaceAll(rest(s, 1), from, to)

\* function globToLike
globToLike(pattern) ==
  LET normalized == IF ~startsWith(pattern, "/") THEN "/" \o pattern ELSE pattern
  IN replaceAll(replaceAll(normalized, "**", "%"), "*", "%")

RECURSIVE like(_, _)
\* SQL LIKE: % matches any run of characters, _ any one character, a letter
\* matches itself in either case.
like(s, pattern) ==
  IF pattern = "" THEN s = ""
  ELSE LET p == SubSeq(pattern, 1, 1)
       IN IF p = "%"
          THEN like(s, rest(pattern, 1)) \/ (s # "" /\ like(rest(s, 1), pattern))
          ELSE /\ s # ""
               /\ p = "_" \/ lowerOf(p) = lowerOf(SubSeq(s, 1, 1))
               /\ like(rest(s, 1), rest(pattern, 1))

RECURSIVE stringBefore(_, _)
\* s sorts strictly before t in the BINARY collation.
stringBefore(s, t) ==
  IF t = "" THEN FALSE
  ELSE IF s = "" THEN TRUE
  ELSE LET a == codeOf(SubSeq(s, 1, 1))
           b == codeOf(SubSeq(t, 1, 1))
       IN a < b \/ (a = b /\ stringBefore(rest(s, 1), rest(t, 1)))

\* .orderBy(column): the rows by ascending key, keys[i] being the column's
\* value in rows[i]. A row goes after the rows whose key sorts before its own
\* and after the rows of equal key that preceded it.
orderBy(rows, keys) ==
  LET rank(i) == 1 + Cardinality({j \in DOMAIN rows :
                       \/ stringBefore(keys[j], keys[i])
                       \/ ~stringBefore(keys[i], keys[j]) /\ j < i})
  IN [k \in DOMAIN rows |-> rows[CHOOSE i \in DOMAIN rows : rank(i) = k]]

\* matches.sort((a, b) => b.score - a.score): by descending score, stable.
sortByScore(matches, scores) ==
  LET rank(i) == 1 + Cardinality({j \in DOMAIN matches :
                       \/ scores[j] > scores[i]
                       \/ scores[j] = scores[i] /\ j < i})
  IN [k \in DOMAIN matches |->
        matches[CHOOSE i \in DOMAIN matches : rank(i) = k]]

\* entry.path.split("/").length - 1
depth(path) == Cardinality({i \in 1..Len(path) : SubSeq(path, i, i) = "/"})

\* An optional argument left out.
undefined == -1

\* glob(pattern, maxDepth)
glob(table, pattern, maxDepth) ==
  LET likePattern == globToLike(pattern)
      selected == SelectSeq(table, LAMBDA r : /\ like(r.path, likePattern)
                                              /\ r.archivedAt = NULL)
      results == orderBy(selected, [i \in DOMAIN selected |-> selected[i].path])
  IN IF maxDepth # undefined
     THEN SelectSeq(results, LAMBDA entry : depth(entry.path) <= maxDepth)
     ELSE results

\* search(query, pathPrefix); an empty pathPrefix is one left out.
search(table, query, pathPrefix) ==
  LET queryLower == toLowerCase(query)
      results == SelectSeq(table, LAMBDA r : r.archivedAt = NULL)
      titleMatch(entry) == includes(toLowerCase(entry.title), queryLower)
      bodyMatch(entry) == includes(toLowerCase(entry.body), queryLower)
      score(entry) == (IF titleMatch(entry) THEN 2 ELSE 0)
                      + (IF bodyMatch(entry) THEN 1 ELSE 0)
      matches == SelectSeq(results, LAMBDA entry :
                   /\ ~(pathPrefix # "" /\ ~startsWith(entry.path, pathPrefix))
                   /\ titleMatch(entry) \/ bodyMatch(entry))
  IN sortByScore(matches, [i \in DOMAIN matches |-> score(matches[i])])

\* getChildren(parentSlug)
getChildren(table, parentSlug) ==
  LET selected ==
        IF parentSlug = NULL
        THEN SelectSeq(table, LAMBDA r : /\ r.parentSlug = NULL
                                         /\ r.archivedAt = NULL)
        ELSE SelectSeq(table, LAMBDA r : /\ r.parentSlug = parentSlug
                                         /\ r.archivedAt = NULL)
  IN orderBy(selected, [i \in DOMAIN selected |-> selected[i].slug])

\* A query, which is one statement: the caller has its answer at once.
answer(w, op, slug, ret) ==
  /\ callers' = [callers EXCEPT ![w] =
       Done([NoCall EXCEPT !.op = op, !.slug = slug], ret)]
  /\ UNCHANGED ltm

\* ----------------------------------------------------------- LTM actions

Patterns == {"**", "a/*"}

MaxDepths == {undefined, 1}

Queries == {"a", "B"}

PathPrefixes == {"", "/a"}

\* Versions a caller may expect.
Versions == 1..MaxVersion

\* A caller may begin a call.
CanCall(w) == callers[w].pc = "idle" /\ ops < MaxOps

Create(w) ==
  /\ CanCall(w)
  /\ ops' = ops + 1
  /\ \E slug \in Slugs, parentSlug \in Slugs \cup {NULL}, title \in Titles,
        body \in Bodies :
       create(w, [slug |-> slug, parentSlug |-> parentSlug, title |-> title,
                  body |-> body, tags |-> <<>>, createdBy |-> w])
  /\ UNCHANGED nonLtmVars

CreateParent(w) ==
  /\ callers[w].pc = "create:parent"
  /\ createParent(w)
  /\ UNCHANGED <<ops, nonLtmVars>>

CreateInsert(w) ==
  /\ callers[w].pc = "create:insert"
  /\ createInsert(w)
  /\ UNCHANGED <<ops, nonLtmVars>>

CreateRead(w) ==
  /\ callers[w].pc = "create:read"
  /\ createRead(w)
  /\ UNCHANGED <<ops, nonLtmVars>>

Update(w) ==
  /\ CanCall(w)
  /\ ops' = ops + 1
  /\ \E slug \in Slugs, body \in Bodies, expectedVersion \in Versions :
       update(w, slug, body, expectedVersion, w)
  /\ UNCHANGED nonLtmVars

UpdateTags(w) ==
  /\ CanCall(w)
  /\ ops' = ops + 1
  /\ \E slug \in Slugs, tags \in TagLists, expectedVersion \in Versions :
       updateTags(w, slug, tags, expectedVersion, w)
  /\ UNCHANGED nonLtmVars

Archive(w) ==
  /\ CanCall(w)
  /\ ops' = ops + 1
  /\ \E slug \in Slugs, expectedVersion \in Versions :
       archive(w, slug, expectedVersion)
  /\ UNCHANGED nonLtmVars

CheckWhy(w) ==
  /\ callers[w].pc = "why"
  /\ checkWhy(w)
  /\ UNCHANGED <<ops, nonLtmVars>>

Read(w) ==
  /\ CanCall(w)
  /\ ops' = ops + 1
  /\ \E slug \in Slugs : answer(w, "read", slug, read(ltm, slug))
  /\ UNCHANGED nonLtmVars

Glob(w) ==
  /\ CanCall(w)
  /\ ops' = ops + 1
  /\ \E pattern \in Patterns, maxDepth \in MaxDepths :
       answer(w, "glob", NULL, Outcome("rows", glob(ltm, pattern, maxDepth)))
  /\ UNCHANGED nonLtmVars

Search(w) ==
  /\ CanCall(w)
  /\ ops' = ops + 1
  /\ \E query \in Queries, pathPrefix \in PathPrefixes :
       answer(w, "search", NULL, Outcome("rows", search(ltm, query, pathPrefix)))
  /\ UNCHANGED nonLtmVars

GetChildren(w) ==
  /\ CanCall(w)
  /\ ops' = ops + 1
  /\ \E parentSlug \in Slugs \cup {NULL} :
       answer(w, "getChildren", NULL,
              Outcome("rows", getChildren(ltm, parentSlug)))
  /\ UNCHANGED nonLtmVars

InitLTM == ServerInit /\ LtmIdle /\ AgentIdle /\ CompactionIdle /\ BudgetIdle /\ RpcIdle

NextLTM ==
  \E w \in Callers :
    \/ Create(w)
    \/ CreateParent(w)
    \/ CreateInsert(w)
    \/ CreateRead(w)
    \/ Update(w)
    \/ UpdateTags(w)
    \/ Archive(w)
    \/ CheckWhy(w)
    \/ Read(w)
    \/ Glob(w)
    \/ Search(w)
    \/ GetChildren(w)

SpecLTM == InitLTM /\ [][NextLTM]_vars

\* ------------------------------------------------- two contending writers
\* Both callers read the same entry, then each updates it with the version it
\* read: the retry protocol the storage's compare-and-swap is made for.

\* A table create() leaves behind: a root entry, and possibly a child of it.
CreatedTables ==
  LET entry(slug, parentSlug, parentPath, body, by) ==
        LTMEntryInsert([slug |-> slug, parentSlug |-> parentSlug,
                        title |-> CHOOSE t \in Titles : TRUE,
                        body |-> body, tags |-> <<>>,
                        createdBy |-> by],
                       buildPath(slug, parentPath))
  IN UNION {
       LET root == entry(s, NULL, NULL, b, by)
       IN {<<root>>} \cup {<<root, entry(c, s, root.path, b, by)>> :
                             c \in Slugs \ {s}}
       : s \in Slugs, b \in Bodies, by \in Callers }

InitCAS ==
  /\ BudgetIdle
  /\ RpcIdle
  /\ ServerInit
  /\ AgentIdle
  /\ CompactionIdle
  /\ ops = 0
  /\ ltm \in CreatedTables
  /\ \E i \in DOMAIN ltm :
       callers \in [Callers -> {[NoCall EXCEPT !.pc = "writer:read",
                                               !.slug = ltm[i].slug,
                                               !.body = b] : b \in Bodies}]

\* A writer reads the entry it is going to change.
WriterRead(w) ==
  /\ callers[w].pc = "writer:read"
  /\ callers' = [callers EXCEPT ![w].pc = "writer:update",
                                ![w].ret = read(ltm, callers[w].slug)]
  /\ UNCHANGED <<ltm, ops, nonLtmVars>>

\* The writer updates the entry, expecting the version it read.
WriterUpdate(w) ==
  /\ callers[w].pc = "writer:update"
  /\ callers[w].ret.kind = "entry"
  /\ update(w, callers[w].slug, callers[w].body,
            callers[w].ret.rows[1].version, w)
  /\ UNCHANGED <<ops, nonLtmVars>>

NextCAS ==
  \E w \in Callers :
    \/ WriterRead(w)
    \/ WriterUpdate(w)
    \/ CheckWhy(w)

SpecCAS == InitCAS /\ [][NextCAS]_vars

\* --------------------------------------------------------------- LTM claims

\* C6: a call of update, updateTags or archive on an existing, non-archived
\* entry whose version equals expectedVersion succeeds in that one statement:
\* the entry is then at exactly that version plus one with the new body, the
\* new tags or archivedAt set, and update / updateTags return the entry as it
\* now is; when expectedVersion differs from the entry's version the statement
\* changes nothing and the call goes on to throw; a call that goes on to find
\* out why its statement matched no row always throws.
C6_MatchingVersionBumpsByOne ==
  [][\A w \in Callers :
       LET c == callers'[w]
           cur == selectBySlug(ltm, c.slug)
           new == selectBySlug(ltm', c.slug)
       IN /\ ( /\ ops' = ops + 1
               /\ c # callers[w]
               /\ c.op \in {"update", "updateTags", "archive"}
               /\ Len(cur) = 1
               /\ cur[1].archivedAt = NULL )
             => IF c.expectedVersion = cur[1].version
                THEN /\ c.pc = "idle"
                     /\ new[1].version = cur[1].version + 1
                     /\ c.op = "update" =>
                          new[1].body = c.body /\ c.ret = Outcome("entry", new)
                     /\ c.op = "updateTags" =>
                          new[1].tags = c.tags /\ c.ret = Outcome("entry", new)
                     /\ c.op = "archive" =>
                          new[1].archivedAt # NULL /\ c.ret.kind = "void"
                ELSE ltm' = ltm /\ c.pc = "why"
          /\ (callers[w].pc = "why" /\ c.pc = "idle")
             => /\ c.ret.kind \in {"NotFound", "Archived", "Conflict"}
                /\ ltm' = ltm
  ]_vars

\* A caller's updateTags succeeded on an entry that had been changed before.
C6_Witness ==
  \E w \in Callers :
    /\ callers[w].op = "updateTags"
    /\ callers[w].ret.kind = "entry"
    /\ callers[w].ret.rows[1].version = 3
    /\ callers[w].ret.rows[1].tags = <<"t">>

C8_OneWriterWins ==
  (\A w \in Callers : /\ callers[w].op = "update"
                      /\ callers[w].pc = "idle"
                      /\ callers[w].expectedVersion = 1)
  => \E winner \in Callers :
       LET row == selectBySlug(ltm, callers[winner].slug)
       IN /\ callers[winner].ret = Outcome("entry", row)
          /\ row[1].version = 2
          /\ row[1].body = callers[winner].body
          /\ row[1].updatedBy = winner
          /\ \A loser \in Callers \ {winner} :
               callers[loser].ret = ConflictError(1, 2)

\* Both writers have finished an update expecting version 1, with different
\* bodies.
C8_Witness ==
  /\ \A w \in Callers : /\ callers[w].op = "update"
                        /\ callers[w].pc = "idle"
                        /\ callers[w].expectedVersion = 1
  /\ \E w1, w2 \in Callers : callers[w1].body # callers[w2].body

\* C9: every entry a caller got from read, glob, search or getChildren was not
\* archived, and a read of the slug of an archived entry returns null.
C9_ArchivedNeverReturned ==
  /\ [](\A w \in Callers :
          callers[w].op \in {"read", "glob", "search", "getChildren"} =>
            \A i \in DOMAIN callers[w].ret.rows :
              callers[w].ret.rows[i].archivedAt = NULL)
  /\ [][\A w \in Callers :
          ( /\ ops' = ops + 1
            /\ callers'[w] # callers[w]
            /\ callers'[w].op = "read"
            /\ \E i \in DOMAIN ltm : /\ ltm[i].slug = callers'[w].slug
                                     /\ ltm[i].archivedAt # NULL )
          => callers'[w].ret = Outcome("null", <<>>)
     ]_vars

\* A caller read the slug of an archived entry and got null.
C9_Witness ==
  \E w \in Callers :
    /\ callers[w].op = "read"
    /\ callers[w].ret.kind = "null"
    /\ \E i \in DOMAIN ltm : /\ ltm[i].slug = callers[w].slug
                             /\ ltm[i].archivedAt # NULL

\* C10: the table never holds two entries with one slug; the insert of a
\* create whose slug is not in the table appends one entry at version 1 whose
\* path is "/" + slug without a parent and the parent entry's path + "/" +
\* slug with one; a create whose slug is in the table, archived or not, when
\* it is called or when it inserts, is rejected and leaves the table as it
\* was; a create whose parent slug is not in the table when it looks the parent
\* up is rejected and leaves the table as it was.
C10_CreateOncePerSlug ==
  /\ [](\A i, j \in DOMAIN ltm : ltm[i].slug = ltm[j].slug => i = j)
  /\ [][\A w \in Callers :
          LET c == callers[w]
              d == callers'[w]
              taken(slug) == \E i \in DOMAIN ltm : ltm[i].slug = slug
          IN /\ ( /\ ops' = ops + 1
                  /\ d # c
                  /\ d.op = "create"
                  /\ taken(d.slug) )
                => d.pc = "idle" /\ d.ret.kind = "Exists" /\ ltm' = ltm
             /\ (c.pc = "create:parent" /\ d # c /\ ~taken(c.parentSlug))
                => d.pc = "idle" /\ d.ret.kind = "ParentNotFound" /\ ltm' = ltm
             /\ (c.pc = "create:insert" /\ d # c /\ taken(c.slug))
                => d.pc = "idle" /\ d.ret.kind = "Constraint" /\ ltm' = ltm
             /\ (c.pc = "create:insert" /\ d # c /\ ~taken(c.slug))
                => /\ Len(ltm') = Len(ltm) + 1
                   /\ SubSeq(ltm', 1, Len(ltm)) = ltm
                   /\ LET e == ltm'[Len(ltm')]
                      IN /\ e.slug = c.slug
                         /\ e.parentSlug = c.parentSlug
                         /\ e.version = 1
                         /\ e.archivedAt = NULL
                         /\ e.body = c.body
                         /\ IF c.parentSlug = NULL
                            THEN e.path = "/" \o c.slug
                            ELSE \E i \in DOMAIN ltm :
                                   /\ ltm[i].slug = c.parentSlug
                                   /\ e.path = ltm[i].path \o "/" \o c.slug
     ]_vars

\* A child entry was created under its parent's path, and a create of a slug
\* that another caller inserted meanwhile was rejected by the table.
C10_Witness ==
  /\ \E i \in DOMAIN ltm : ltm[i].parentSlug # NULL /\ ltm[i].path = "/a/b"
  /\ \E w \in Callers : callers[w].op = "create" /\ callers[w].ret.kind = "Constraint"

\* C29: when a mutation reports a failure, the kind is NotFound exactly when no
\* entry has the slug, Archived exactly when the entry exists and is archived
\* (whatever version was expected), and Conflict, carrying the expected and the
\* actual version, only when the entry exists, is not archived and its version
\* differs from the expected one.
C29_ErrorKindInOrder ==
  [][\A w \in Callers :
       LET c == callers'[w]
           cur == selectBySlug(ltm, c.slug)
       IN (callers[w].pc = "why" /\ c.pc = "idle")
          => /\ c.ret.kind \in {"NotFound", "Archived", "Conflict"}
             /\ c.ret.kind = "NotFound" <=> Len(cur) = 0
             /\ c.ret.kind = "Archived" <=>
                  (Len(cur) = 1 /\ cur[1].archivedAt # NULL)
             /\ c.ret.kind = "Conflict" =>
                  /\ Len(cur) = 1
                  /\ cur[1].archivedAt = NULL
                  /\ c.ret.expected = c.expectedVersion
                  /\ c.ret.actual = cur[1].version
                  /\ cur[1].version # c.expectedVersion
  ]_vars

C35_ConflictVersionsDiffer ==
  \A w \in Callers :
    callers[w].ret.kind = "Conflict" => callers[w].ret.actual # callers[w].ret.expected

\* C36: every entry is inserted at version 1 and keeps its place in the table;
\* a statement either leaves an entry's version as it was or raises it by one,
\* and it raises it exactly when it is the statement of an update, updateTags
\* or archive on that entry that succeeds; an entry whose archivedAt is set
\* keeps it set and keeps its version, and no mutation of it succeeds.
C36_VersionCountsMutationsArchiveIsTerminal ==
  /\ [](\A i \in DOMAIN ltm : ltm[i].version >= 1)
  /\ [][/\ Len(ltm') >= Len(ltm)
        /\ \A i \in DOMAIN ltm' \ DOMAIN ltm : ltm'[i].version = 1
        /\ \A i \in DOMAIN ltm :
             LET succeeded ==
                   \E w \in Callers :
                     /\ ops' = ops + 1
                     /\ callers'[w] # callers[w]
                     /\ callers'[w].op \in {"update", "updateTags", "archive"}
                     /\ callers'[w].slug = ltm[i].slug
                     /\ callers'[w].ret.kind \in {"entry", "void"}
             IN /\ ltm'[i].slug = ltm[i].slug
                /\ ltm'[i].version =
                     IF succeeded THEN ltm[i].version + 1 ELSE ltm[i].version
                /\ ltm[i].archivedAt # NULL =>
                     /\ ltm'[i].archivedAt = ltm[i].archivedAt
                     /\ ~succeeded
       ]_vars

\* An entry was archived by its first mutation, and a later mutation of it that
\* expected the version it then had was refused.
C36_Witness ==
  \E i \in DOMAIN ltm :
    /\ ltm[i].version = 2
    /\ ltm[i].archivedAt # NULL
    /\ \E w \in Callers :
         /\ callers[w].op \in {"update", "updateTags", "archive"}
         /\ callers[w].slug = ltm[i].slug
         /\ callers[w].expectedVersion = 2
         /\ callers[w].ret.kind = "Archived"

\* --------------------------------------------------------------- agent loop
\* src/src/agent/index.ts, runAgent, as the Server's processTurn runs it for one
\* turn: the user message that started the turn has been read, further lines
\* arrive while the loop runs. A step of the loop runs from one model call or
\* tool execution to the next.

\* const MAX_TURNS
MAX_TURNS == 50

\* function estimateTokens
estimateTokens(text) == (Len(text) + 3) \div 4

\* What the model answers with.
Texts == {"", "ok"}

\* const INVALID_TOOL_CALL (Provider): the tool name an unknown or ill-formed
\* tool call arrives under; executeTool has no case for it.
INVALID_TOOL_CALL == "__invalid_tool_call__"

\* The tools the model calls: one executeTool has a case for, one it has not.
ToolNames == {"bash", INVALID_TOOL_CALL}

\* result.toolCalls: up to n tool calls, each by its toolName.
toolCallLists(n) == UNION {[1..k -> ToolNames] : k \in 0..n}

\* result.usage as the provider reports it: here a prompt token per message
\* sent, a completion token per four characters of text and one per tool call.
usageOf(messages, text, toolCalls) ==
  [promptTokens |-> Len(messages),
   completionTokens |-> estimateTokens(text) + Len(toolCalls)]

\* What Provider.generate may resolve with in iteration `turn` of the loop,
\* sent `messages`: any text and any tool calls, the model using tools in at
\* most MaxModelCalls - 1 answers and more than one tool in its first answer
\* only.
Answers(turn, messages) ==
  {[text |-> text, toolCalls |-> toolCalls,
    usage |-> usageOf(messages, text, toolCalls),
    toolResultParts |-> <<>>, toolResult |-> ""] :
     text \in Texts,
     toolCalls \in toolCallLists(IF turn + 1 >= MaxModelCalls THEN 0
                                 ELSE IF turn = 0 THEN MaxAgentToolCalls
                                 ELSE 1)}

\* What Provider.generate resolves with when the model never stops by itself
\* for long: it calls bash, or it stops; it says something in its first
\* MaxModelCalls answers and when it stops.
PersistentAnswers(turn, messages) ==
  {[text |-> text, toolCalls |-> toolCalls,
    usage |-> usageOf(messages, text, toolCalls),
    toolResultParts |-> <<>>, toolResult |-> ""] :
     text \in (IF turn < MaxModelCalls THEN Texts ELSE {""}),
     toolCalls \in {<<"bash">>}}
  \cup
  {[text |-> text, toolCalls |-> <<>>,
    usage |-> usageOf(messages, text, <<>>),
    toolResultParts |-> <<>>, toolResult |-> ""] : text \in Texts}

RECURSIVE repeat(_, _)
\* String.prototype.repeat
repeat(str, count) == IF count = 0 THEN "" ELSE str \o repeat(str, count - 1)

\* An error message of more than 200 characters.
LongMessage == "failed: " \o repeat("0123456789", 20)

\* How executeTool settles for a tool: the tools it knows return their output
\* or throw, any other name throws "Unknown tool".
\*   threw : whether it throws;  value : the output, or the Error's message
ToolOutcomes(toolName) ==
  IF toolName = "bash"
  THEN {[threw |-> FALSE, value |-> "done"],
        [threw |-> TRUE, value |-> LongMessage]}
  ELSE {[threw |-> TRUE, value |-> "Unknown tool: " \o toolName]}

\* A tool that works.
ToolReturns == {[threw |-> FALSE, value |-> "done"]}

\* A log that keeps the newest message only.
appendMessage_replacing(messages, type, content) ==
  <<[type |-> type, content |-> content,
     tokenEstimate |-> estimateTokens(content)]>>

\* storage.temporal.appendMessage
appendMessage(messages, type, content) ==
  Append(messages, [type |-> type, content |-> content,
                    tokenEstimate |-> estimateTokens(content)])

\* JSON.stringify({ name: toolCall.toolName, args: toolCall.args }), the
\* arguments being {}.
toolCallContent(toolName) == "{\"name\":\"" \o toolName \o "\",\"args\":{}}"

\* storage.temporal.appendMessage for a tool call: the estimate is of the
\* arguments alone.
appendToolCall(messages, toolName) ==
  Append(messages, [type |-> "tool_call", content |-> toolCallContent(toolName),
                    tokenEstimate |-> estimateTokens("{}")])

\* toolCall.toolCallId of call k in the answer of iteration turn.
toolCallId(turn, k) == <<turn, k>>

\* toolResult.slice(0, 200) + (toolResult.length > 200 ? "..." : "")
eventContent(toolResult) ==
  IF Len(toolResult) > 200 THEN SubSeq(toolResult, 1, 200) \o "..." ELSE toolResult

\* An AgentEvent.
AgentEvent(type, content, id) == [type |-> type, content |-> content, toolCallId |-> id]

\* assistantText / assistantToolUse: an assistant line with one content block.
assistantMessage(block) ==
  [type |-> "assistant", subtype |-> block, is_error |-> FALSE,
   session_id |-> Null, n |-> 0]

\* handleAgentEvent: the line an event is sent as, if any.
eventLine(event) ==
  IF event.type = "assistant"
  THEN <<assistantMessage("text") @@ [content |-> event.content]>>
  ELSE IF event.type = "tool_call"
  THEN <<assistantMessage("tool_use")
           @@ [content |-> event.content, toolCallId |-> event.toolCallId]>>
  ELSE IF event.type = "tool_result"
  THEN <<systemMessage("tool_result", Null, 0)
           @@ [content |-> event.content, toolCallId |-> event.toolCallId]>>
  ELSE IF event.type = "error"
  THEN <<systemMessage("error", Null, 0) @@ [message |-> event.content]>>
  ELSE <<>>

RECURSIVE eventLines(_)
\* The lines a sequence of events is sent as.
eventLines(events) ==
  IF events = <<>> THEN <<>>
  ELSE eventLine(Head(events)) \o eventLines(Tail(events))

\* options.onEvent for the events of one step: handleAgentEvent ignores them
\* when no turn is current, else sends them and counts the tool results.
onEvent(ts, events) ==
  IF currentTurn = Null
  THEN [lines |-> <<>>, turns |-> ts]
  ELSE [lines |-> eventLines(events),
        turns |-> [ts EXCEPT ![currentTurn].numTurns =
                     @ + Len(SelectSeq(events, LAMBDA e : e.type = "tool_result"))]]

\* The turn whose runAgent is running.
AgentTurnId == 1

\* What a step of runAgent leaves alone besides the Server's fields it names.
AgentUnchanged ==
  /\ hookReturn' = NotCalled
  /\ line' = NoLine
  /\ UNCHANGED <<messageQueue, processing, received, controls, toolResults,
                 arrivedDuring, consumed, ltmVars, compactionVars, budgetVars,
                 rpcVars>>

\* runAgent up to its first await: the prompt opens the conversation and is
\* written to the temporal log.
RunAgentStart ==
  /\ agentPc = "start"
  /\ LET prompt == getPromptFromUserMessage(turns[AgentTurnId].sessionId)
     IN /\ agentMessages' = <<[role |-> "user", content |-> prompt]>>
        /\ temporal' = appendMessage(temporal, "user", prompt)
  /\ agentPc' = "user"
  /\ stdout' = <<>>
  /\ UNCHANGED <<agentTurn, agentResult, finalResponse, totalInputTokens,
                 totalOutputTokens, modelCalls, currentTurn, turns>>
  /\ AgentUnchanged

\* The user row is written: the prompt is reported, the totals start at zero
\* and the loop is entered.
UserLogged ==
  /\ agentPc = "user"
  /\ LET sent == onEvent(turns, <<AgentEvent("user", agentMessages[1].content, Null)>>)
     IN /\ stdout' = sent.lines
        /\ turns' = sent.turns
  /\ totalInputTokens' = 0
  /\ totalOutputTokens' = 0
  /\ finalResponse' = ""
  /\ agentTurn' = 0
  /\ agentPc' = "generate"
  /\ UNCHANGED <<agentMessages, agentResult, modelCalls, temporal, currentTurn>>
  /\ AgentUnchanged

\* A loop that starts with the last tool call of the answer.
handleToolCalls_lastFirst(result, log) ==
  IF Len(result.toolCalls) > 0
  THEN /\ temporal' = appendToolCall(log, result.toolCalls[Len(result.toolCalls)])
       /\ agentResult' = result
       /\ agentPc' = "tool_call"
       /\ UNCHANGED agentMessages
  ELSE /\ temporal' = log
       /\ agentMessages' =
            IF result.text # ""
            THEN Append(agentMessages, [role |-> "assistant", content |-> result.text])
            ELSE agentMessages
       /\ agentResult' = NoResult
       /\ agentPc' = "finish"

\* runAgent from "Handle tool calls" on, for the answer `result` and the
\* temporal log `log`: the first tool call is written to the log, or, there
\* being none, the text joins the conversation and the loop is left.
handleToolCalls(result, log) ==
  IF Len(result.toolCalls) > 0
  THEN /\ temporal' = appendToolCall(log, result.toolCalls[1])
       /\ agentResult' = result
       /\ agentPc' = "tool_call"
       /\ UNCHANGED agentMessages
  ELSE /\ temporal' = log
       /\ agentMessages' =
            IF result.text # ""
            THEN Append(agentMessages, [role |-> "assistant", content |-> result.text])
            ELSE agentMessages
       /\ agentResult' = NoResult
       /\ agentPc' = "finish"

\* A loop that calls the model however many times it has been round.
Generate_uncapped(result) ==
  /\ agentPc = "generate"
  /\ totalInputTokens' = totalInputTokens + result.usage.promptTokens
  /\ totalOutputTokens' = totalOutputTokens + result.usage.completionTokens
  /\ modelCalls' = Append(modelCalls, result)
  /\ IF result.text # ""
     THEN /\ finalResponse' = result.text
          /\ temporal' = appendMessage(temporal, "assistant", result.text)
          /\ agentResult' = result
          /\ agentPc' = "assistant"
          /\ UNCHANGED agentMessages
     ELSE /\ UNCHANGED finalResponse
          /\ handleToolCalls(result, temporal)
  /\ stdout' = <<>>
  /\ UNCHANGED <<agentTurn, currentTurn, turns>>
  /\ AgentUnchanged

\* Provider.generate resolves with `result`: its usage is added to the totals;
\* a text becomes finalResponse and is written to the log, else the tool calls
\* are turned to at once.
Generate(result) ==
  /\ agentPc = "generate"
  /\ agentTurn < MAX_TURNS
  /\ totalInputTokens' = totalInputTokens + result.usage.promptTokens
  /\ totalOutputTokens' = totalOutputTokens + result.usage.completionTokens
  /\ modelCalls' = Append(modelCalls, result)
  /\ IF result.text # ""
     THEN /\ finalResponse' = result.text
          /\ temporal' = appendMessage(temporal, "assistant", result.text)
          /\ agentResult' = result
          /\ agentPc' = "assistant"
          /\ UNCHANGED agentMessages
     ELSE /\ UNCHANGED finalResponse
          /\ handleToolCalls(result, temporal)
  /\ stdout' = <<>>
  /\ UNCHANGED <<agentTurn, currentTurn, turns>>
  /\ AgentUnchanged

\* Provider.generate rejects: runAgent throws at its await and processTurn's
\* catch and finally blocks run.
GenerateThrows ==
  /\ agentPc = "generate"
  /\ agentTurn < MAX_TURNS
  /\ agentPc' = "threw"
  /\ stdout' = resultOnThrow(AgentTurnId)
  /\ currentTurn' = Null
  /\ turns' = [turns EXCEPT ![AgentTurnId].at = "returned",
                            ![AgentTurnId].results = @ \o resultOnThrow(AgentTurnId)]
  /\ UNCHANGED <<agentTurn, agentMessages, agentResult, finalResponse,
                 totalInputTokens, totalOutputTokens, modelCalls, temporal>>
  /\ AgentUnchanged

\* The assistant row is written: the text is reported and the tool calls are
\* turned to.
AssistantLogged ==
  /\ agentPc = "assistant"
  /\ LET sent == onEvent(turns, <<AgentEvent("assistant", agentResult.text, Null)>>)
     IN /\ stdout' = sent.lines
        /\ turns' = sent.turns
  /\ handleToolCalls(agentResult, temporal)
  /\ UNCHANGED <<agentTurn, finalResponse, totalInputTokens, totalOutputTokens,
                 modelCalls, currentTurn>>
  /\ AgentUnchanged

\* The tool_call row is written: the call is reported and executeTool called.
ToolCallLogged ==
  /\ agentPc = "tool_call"
  /\ LET k == Len(agentResult.toolResultParts) + 1
         toolName == agentResult.toolCalls[k]
         sent == onEvent(turns, <<AgentEvent("tool_call", toolName \o "({}...)",
                                             toolCallId(agentTurn, k))>>)
     IN /\ stdout' = sent.lines
        /\ turns' = sent.turns
  /\ agentPc' = "executeTool"
  /\ UNCHANGED <<agentTurn, agentMessages, agentResult, finalResponse,
                 totalInputTokens, totalOutputTokens, modelCalls, temporal,
                 currentTurn>>
  /\ AgentUnchanged

\* A loop without the try/catch around executeTool: what the tool throws ends
\* runAgent, and processTurn's catch and finally blocks run.
ExecuteTool_propagates(outcome) ==
  /\ agentPc = "executeTool"
  /\ outcome \in ToolOutcomes(agentResult.toolCalls[Len(agentResult.toolResultParts) + 1])
  /\ IF outcome.threw
     THEN /\ agentPc' = "threw"
          /\ stdout' = resultOnThrow(AgentTurnId)
          /\ currentTurn' = Null
          /\ turns' = [turns EXCEPT
                         ![AgentTurnId].at = "returned",
                         ![AgentTurnId].results = @ \o resultOnThrow(AgentTurnId)]
          /\ UNCHANGED <<agentResult, temporal>>
     ELSE /\ agentResult' = [agentResult EXCEPT !.toolResult = outcome.value]
          /\ temporal' = appendMessage(temporal, "tool_result", outcome.value)
          /\ stdout' = <<>>
          /\ agentPc' = "tool_result"
          /\ UNCHANGED <<turns, currentTurn>>
  /\ UNCHANGED <<agentTurn, agentMessages, finalResponse, totalInputTokens,
                 totalOutputTokens, modelCalls>>
  /\ AgentUnchanged

\* executeTool settles: what it threw becomes the result and is reported as an
\* error; the result is written to the log.
ExecuteTool(outcome) ==
  /\ agentPc = "executeTool"
  /\ outcome \in ToolOutcomes(agentResult.toolCalls[Len(agentResult.toolResultParts) + 1])
  /\ LET toolResult == IF outcome.threw THEN "Error: " \o outcome.value
                                        ELSE outcome.value
         sent == onEvent(turns, IF outcome.threw
                                THEN <<AgentEvent("error", toolResult, Null)>>
                                ELSE <<>>)
     IN /\ agentResult' = [agentResult EXCEPT !.toolResult = toolResult]
        /\ temporal' = appendMessage(temporal, "tool_result", toolResult)
        /\ stdout' = sent.lines
        /\ turns' = sent.turns
  /\ agentPc' = "tool_result"
  /\ UNCHANGED <<agentTurn, agentMessages, finalResponse, totalInputTokens,
                 totalOutputTokens, modelCalls, currentTurn>>
  /\ AgentUnchanged

\* The tool_result row is written: the result is reported and kept; the next
\* tool call of the answer is written to the log, or, after the last one, the
\* assistant and tool messages join the conversation and the loop continues.
ToolResultLogged ==
  /\ agentPc = "tool_result"
  /\ LET k == Len(agentResult.toolResultParts) + 1
         sent == onEvent([turns EXCEPT ![AgentTurnId].roundTrips = @ + 1],
                         <<AgentEvent("tool_result",
                                      eventContent(agentResult.toolResult),
                                      toolCallId(agentTurn, k))>>)
         toolResultParts == Append(agentResult.toolResultParts, agentResult.toolResult)
     IN /\ stdout' = sent.lines
        /\ turns' = sent.turns
        /\ IF k < Len(agentResult.toolCalls)
           THEN /\ temporal' = appendToolCall(temporal, agentResult.toolCalls[k + 1])
                /\ agentResult' = [agentResult EXCEPT
                                     !.toolResultParts = toolResultParts,
                                     !.toolResult = ""]
                /\ agentPc' = "tool_call"
                /\ UNCHANGED <<agentTurn, agentMessages>>
           ELSE /\ agentMessages' = agentMessages
                     \o <<[role |-> "assistant", content |-> agentResult.text,
                           toolCalls |-> agentResult.toolCalls],
                          [role |-> "tool", content |-> toolResultParts]>>
                /\ agentResult' = NoResult
                /\ agentTurn' = agentTurn + 1
                /\ agentPc' = "generate"
                /\ UNCHANGED temporal
  /\ UNCHANGED <<finalResponse, totalInputTokens, totalOutputTokens, modelCalls,
                 currentTurn>>
  /\ AgentUnchanged

\* A processTurn that sends the result while runAgent is still at work.
Finish_early ==
  /\ agentPc \in {"generate", "tool_call", "executeTool", "tool_result"}
  /\ turns[AgentTurnId].results = <<>>
  /\ stdout' = resultOnReturn(AgentTurnId)
  /\ turns' = [turns EXCEPT ![AgentTurnId].results = @ \o resultOnReturn(AgentTurnId)]
  /\ UNCHANGED <<agentLocals, temporal, currentTurn>>
  /\ AgentUnchanged

\* The loop is over: runAgent reports "done" and returns finalResponse and the
\* totals, processTurn sends the result and its finally block clears currentTurn.
Finish ==
  /\ \/ agentPc = "finish"
     \/ agentPc = "generate" /\ agentTurn >= MAX_TURNS
  /\ agentPc' = "returned"
  /\ stdout' = onEvent(turns, <<AgentEvent("done", finalResponse, Null)>>).lines
                 \o resultOnReturn(AgentTurnId)
  /\ currentTurn' = Null
  /\ turns' = [turns EXCEPT ![AgentTurnId].at = "returned",
                            ![AgentTurnId].results = @ \o resultOnReturn(AgentTurnId)]
  /\ UNCHANGED <<agentTurn, agentMessages, agentResult, finalResponse,
                 totalInputTokens, totalOutputTokens, modelCalls, temporal>>
  /\ AgentUnchanged

\* A line arrives while the turn is in progress.
LineDuringTurn ==
  /\ currentTurn # Null
  /\ \/ UserLine
     \/ ControlLine

\* The Server has read the first user message and started its turn.
InitAgent ==
  /\ BudgetIdle
  /\ RpcIdle
  /\ currentTurn = AgentTurnId
  /\ messageQueue = <<>>
  /\ processing = FALSE
  /\ stdout = <<>>
  /\ turns = <<TurnState(1, "handleUserMessage")>>
  /\ received = 1
  /\ controls = 0
  /\ toolResults = 0
  /\ arrivedDuring = <<Null>>
  /\ consumed = <<[msg |-> 1, how |-> "turn", turn |-> AgentTurnId]>>
  /\ hookReturn = NotCalled
  /\ line = NoLine
  /\ LtmIdle
  /\ CompactionIdle
  /\ agentPc = "start"
  /\ agentTurn = 0
  /\ agentMessages = <<>>
  /\ agentResult = NoResult
  /\ finalResponse = ""
  /\ totalInputTokens = 0
  /\ totalOutputTokens = 0
  /\ modelCalls = <<>>
  /\ temporal = <<>>

NextAgent ==
  \/ RunAgentStart
  \/ UserLogged
  \/ \E result \in Answers(agentTurn, agentMessages) : Generate(result)
  \/ GenerateThrows
  \/ AssistantLogged
  \/ ToolCallLogged
  \/ \E outcome \in UNION {ToolOutcomes(t) : t \in ToolNames} : ExecuteTool(outcome)
  \/ ToolResultLogged
  \/ Finish
  \/ LineDuringTurn

SpecAgent == InitAgent /\ [][NextAgent]_vars

\* runAgent with a model that goes on calling a tool that works, until it
\* stops by itself or is stopped.
NextRun ==
  \/ RunAgentStart
  \/ UserLogged
  \/ \E result \in PersistentAnswers(agentTurn, agentMessages) : Generate(result)
  \/ GenerateThrows
  \/ AssistantLogged
  \/ ToolCallLogged
  \/ \E outcome \in ToolReturns : ExecuteTool(outcome)
  \/ ToolResultLogged
  \/ Finish

SpecRun == InitAgent /\ [][NextRun]_vars

\* Every await of runAgent settles: the model answers or fails, the storage
\* and the tools return.
FairSpecRun == SpecRun /\ WF_vars(NextRun)

\* ------------------------------------------------------------- agent claims

\* C12: every step in which the loop calls the model begins with a call of
\* onBeforeTurn, and when that call returns a non-empty string the string is,
\* by the end of the step, in the working conversation as a new user message
\* and in the temporal log as a new user message.
C12_HookBeforeEveryModelCall ==
  [][( /\ agentPc = "generate"
       /\ agentTurn < MAX_TURNS
       /\ agentPc' # "generate" )
     => /\ hookReturn' # NotCalled
        /\ hookReturn' \notin {NULL, ""} =>
             /\ \E i \in DOMAIN agentMessages' :
                  /\ i > Len(agentMessages)
                  /\ agentMessages'[i] = [role |-> "user", content |-> hookReturn']
             /\ \E i \in DOMAIN temporal' :
                  /\ i > Len(temporal)
                  /\ temporal'[i].type = "user"
                  /\ temporal'[i].content = hookReturn'
  ]_vars

\* C13: a line that reports an event of the turn (assistant text, tool_use,
\* tool_result, error, injected) is only written while no result has been
\* written for the turn, and in the step that writes the result it stands
\* before the result; the result, once written, is the last line of the turn.
C13_EventsBeforeResult ==
  [][\A i \in DOMAIN stdout' :
       ( \/ stdout'[i].type = "assistant"
         \/ /\ stdout'[i].type = "system"
            /\ stdout'[i].subtype \in {"tool_result", "error", "injected"} )
       => /\ turns[AgentTurnId].results = <<>>
          /\ \A j \in 1..i : stdout'[j].type # "result"
  ]_vars

\* The turn has ended with a result after an assistant text, a tool_use and a
\* tool_result were written for it.
C13_Witness ==
  /\ agentPc = "returned"
  /\ Len(turns[AgentTurnId].results) = 1
  /\ turns[AgentTurnId].numTurns > 0
  /\ \E i \in DOMAIN temporal : temporal[i].type = "assistant"
  /\ Len(stdout) = 1
  /\ stdout[1].type = "result"

\* C21: runAgent makes at most MAX_TURNS = 50 model calls and then ends: every
\* answer but the last one carried tool calls; when it returns, the last answer
\* carried none or was the 50th, finalResponse is the text of the last answer
\* that had a text ("" when none had) and the usage returned is the sum of the
\* usage of all answers; and every run ends, by returning or by throwing.
C21_BoundedRunReturnsLastTextAndUsage ==
  LET RECURSIVE sumPrompt(_)
      sumPrompt(n) ==
        IF n = 0 THEN 0 ELSE sumPrompt(n - 1) + modelCalls[n].usage.promptTokens
      RECURSIVE sumCompletion(_)
      sumCompletion(n) ==
        IF n = 0 THEN 0
        ELSE sumCompletion(n - 1) + modelCalls[n].usage.completionTokens
      withText == {i \in DOMAIN modelCalls : modelCalls[i].text # ""}
      lastText == IF withText = {} THEN ""
                  ELSE modelCalls[CHOOSE i \in withText :
                                    \A j \in withText : j <= i].text
      n == Len(modelCalls)
  IN /\ [](/\ n <= MAX_TURNS
           /\ \A i \in 1..(n - 1) : modelCalls[i].toolCalls # <<>>
           /\ agentPc = "returned"
                => /\ n >= 1
                   /\ modelCalls[n].toolCalls = <<>> \/ n = MAX_TURNS
                   /\ finalResponse = lastText
                   /\ totalInputTokens = sumPrompt(n)
                   /\ totalOutputTokens = sumCompletion(n))
     /\ <>(agentPc \in {"returned", "threw"})

\* The run was stopped after its 50th model call, which still asked for a tool,
\* and returned the text of an earlier answer.
C21_Witness ==
  /\ agentPc = "returned"
  /\ Len(modelCalls) = MAX_TURNS
  /\ modelCalls[MAX_TURNS].toolCalls # <<>>
  /\ modelCalls[MAX_TURNS].text = ""
  /\ finalResponse = "ok"
  /\ totalOutputTokens > MAX_TURNS

\* C22: when executeTool settles, by returning or by throwing (an unknown tool
\* name makes it throw), the turn goes on: exactly one tool_result row is
\* appended, holding the output or "Error: " and the message thrown, which is
\* also reported as an error; the next step reports exactly one tool_result
\* event with that text (its first 200 characters and "..." when it is longer)
\* and the call's id, then turns to the next tool call of the answer or, after
\* the last one, to the next iteration of the loop; in every state each
\* dispatched call has one tool_result row and one tool_result event, the call
\* at hand excepted.
C22_ToolErrorDoesNotEndTurn ==
  /\ [][(agentPc = "executeTool" /\ agentPc' # "executeTool")
        => LET k == Len(agentResult.toolResultParts) + 1
               toolName == agentResult.toolCalls[k]
               toolResult == agentResult'.toolResult
               errors == {"Error: " \o o.value :
                            o \in {x \in ToolOutcomes(toolName) : x.threw}}
           IN /\ agentPc' = "tool_result"
              /\ temporal' = Append(temporal,
                     [type |-> "tool_result", content |-> toolResult,
                      tokenEstimate |-> estimateTokens(toolResult)])
              /\ toolName = INVALID_TOOL_CALL
                   => toolResult = "Error: Unknown tool: " \o toolName
              /\ \/ toolResult \notin errors /\ stdout' = <<>>
                 \/ /\ toolResult \in errors
                    /\ Len(stdout') = 1
                    /\ stdout'[1].subtype = "error"
                    /\ stdout'[1].message = toolResult
              /\ currentTurn' = currentTurn
              /\ turns'[AgentTurnId].at = "agent"
              /\ turns'[AgentTurnId].results = <<>>
       ]_vars
  /\ [][(agentPc = "tool_result" /\ agentPc' # "tool_result")
        => LET k == Len(agentResult.toolResultParts) + 1
               toolResult == agentResult.toolResult
           IN /\ Len(stdout') = 1
              /\ stdout'[1].subtype = "tool_result"
              /\ stdout'[1].toolCallId = toolCallId(agentTurn, k)
              /\ stdout'[1].content =
                   (IF Len(toolResult) <= 200 THEN toolResult
                    ELSE SubSeq(toolResult, 1, 200) \o "...")
              /\ currentTurn' = currentTurn
              /\ turns'[AgentTurnId].at = "agent"
              /\ IF k < Len(agentResult.toolCalls)
                 THEN /\ agentPc' = "tool_call"
                      /\ agentTurn' = agentTurn
                      /\ Len(temporal') = Len(temporal) + 1
                      /\ temporal'[Len(temporal')].type = "tool_call"
                      /\ temporal'[Len(temporal')].content =
                           toolCallContent(agentResult.toolCalls[k + 1])
                 ELSE /\ agentPc' = "generate"
                      /\ agentTurn' = agentTurn + 1
                      /\ temporal' = temporal
                      /\ agentMessages'[Len(agentMessages')].content =
                           Append(agentResult.toolResultParts, toolResult)
       ]_vars
  /\ [](LET rows(type) == Len(SelectSeq(temporal, LAMBDA m : m.type = type))
        IN agentPc \notin {"idle", "start"}
             => /\ rows("tool_result") =
                     rows("tool_call")
                       - (IF agentPc \in {"tool_call", "executeTool"} THEN 1 ELSE 0)
                /\ turns[AgentTurnId].roundTrips =
                     rows("tool_result") - (IF agentPc = "tool_result" THEN 1 ELSE 0))

\* The first tool call of an answer named a tool executeTool does not know,
\* the second one worked, and the model has been called again since.
C22_Witness ==
  /\ Len(modelCalls) = 2
  /\ modelCalls[1].toolCalls = <<INVALID_TOOL_CALL, "bash">>
  /\ \E i \in DOMAIN temporal :
       /\ temporal[i].type = "tool_result"
       /\ temporal[i].content = "Error: Unknown tool: __invalid_tool_call__"
       /\ i + 2 \in DOMAIN temporal
       /\ temporal[i + 1].type = "tool_call"
       /\ temporal[i + 2].content = "done"
  /\ turns[AgentTurnId].roundTrips = 2
  /\ turns[AgentTurnId].numTurns = 2

\* C23: at every moment of a turn the temporal log is, in this order: the user
\* message; then for each answer of the model, in order, its text if it has
\* one and, for each of its tool calls in the order of the answer, the
\* tool_call row directly followed by the tool_result row (the call at hand has
\* its tool_call row only, later calls of the answer have none yet, so no call
\* is dispatched before the result row of the one before it is written); and a
\* line reporting an assistant text, a tool call or a tool result is only
\* written when the row it reports is already the last row of the log.
C23_RowsInLoopOrder ==
  /\ [](LET n == Len(modelCalls)
            \* tool calls of answer i that have their result row
            complete(i) ==
              IF i < n \/ agentPc \in {"generate", "finish", "returned", "threw"}
              THEN Len(modelCalls[i].toolCalls)
              ELSE Len(agentResult.toolResultParts)
                     + (IF agentPc = "tool_result" THEN 1 ELSE 0)
            \* whether answer i has a call with its tool_call row but no result
            open(i) == i = n /\ agentPc \in {"tool_call", "executeTool"}
            RECURSIVE callRows(_, _)
            callRows(i, k) ==
              IF k = 0 THEN <<>>
              ELSE callRows(i, k - 1)
                     \o <<[type |-> "tool_call",
                           content |-> toolCallContent(modelCalls[i].toolCalls[k])]>>
                     \o (IF k <= complete(i)
                         THEN <<[type |-> "tool_result", content |-> ""]>>
                         ELSE <<>>)
            answerRows(i) ==
              (IF modelCalls[i].text # ""
               THEN <<[type |-> "assistant", content |-> modelCalls[i].text]>>
               ELSE <<>>)
                \o callRows(i, complete(i) + (IF open(i) THEN 1 ELSE 0))
            RECURSIVE rows(_)
            rows(i) == IF i = 0 THEN <<>> ELSE rows(i - 1) \o answerRows(i)
            logged == [i \in DOMAIN temporal |->
                         [type |-> temporal[i].type,
                          content |-> IF temporal[i].type = "tool_result" THEN ""
                                      ELSE temporal[i].content]]
        IN agentPc \notin {"idle", "start"}
             => logged = <<[type |-> "user",
                            content |-> getPromptFromUserMessage(
                                          turns[AgentTurnId].sessionId)]>>
                           \o rows(n))
  /\ [][\A i \in DOMAIN stdout' :
         /\ (stdout'[i].type = "assistant" /\ stdout'[i].subtype = "text")
              => /\ temporal[Len(temporal)].type = "assistant"
                 /\ temporal[Len(temporal)].content = stdout'[i].content
         /\ (stdout'[i].type = "assistant" /\ stdout'[i].subtype = "tool_use")
              => /\ temporal[Len(temporal)].type = "tool_call"
                 /\ \E t \in ToolNames :
                      /\ temporal[Len(temporal)].content = toolCallContent(t)
                      /\ stdout'[i].content = t \o "({}...)"
         /\ (stdout'[i].type = "system" /\ stdout'[i].subtype = "tool_result")
              => /\ temporal[Len(temporal)].type = "tool_result"
                 /\ stdout'[i].content =
                      eventContent(temporal[Len(temporal)].content)
      ]_vars
  /\ [][(agentPc = "tool_call" /\ agentPc' = "executeTool")
         => /\ temporal[Len(temporal)].type = "tool_call"
            /\ Len(SelectSeq(temporal, LAMBDA m : m.type = "tool_call"))
                 = Len(SelectSeq(temporal, LAMBDA m : m.type = "tool_result")) + 1
      ]_vars

\* An answer with a text and two different tool calls has been worked off: its
\* rows stand in the log in the order text, first call, its result, second
\* call, its result.
C23_Witness ==
  /\ Len(modelCalls) >= 1
  /\ modelCalls[1].text = "ok"
  /\ modelCalls[1].toolCalls = <<"bash", INVALID_TOOL_CALL>>
  /\ Len(temporal) >= 6
  /\ temporal[2].type = "assistant"
  /\ temporal[3].content = toolCallContent("bash")
  /\ temporal[4].type = "tool_result"
  /\ temporal[5].content = toolCallContent(INVALID_TOOL_CALL)
  /\ temporal[6].type = "tool_result"

\* C24: once the turn's abort signal has fired, the loop calls the model no
\* more, dispatches no tool and does not report "done".
C24_CancelledLoopStops ==
  [][turns[AgentTurnId].aborted
       => /\ ~(agentPc # "generate" /\ agentPc' = "generate"
                 /\ agentTurn' < MAX_TURNS)
          /\ Len(modelCalls') = Len(modelCalls)
          /\ ~(agentPc = "tool_call" /\ agentPc' = "executeTool")
          /\ ~(agentPc # "returned" /\ agentPc' = "returned")
  ]_vars


\* ------------------------------------------------------------- compaction
\* src/src/temporal/compaction-agent.ts. A step of runCompaction runs from one
\* call of the storage or of the model to the next; a main turn may append
\* messages to the temporal log in between.

\* const MAX_COMPACTION_TURNS
MAX_COMPACTION_TURNS == 10

\* const maxInnerTurns
maxInnerTurns == 5

\* function estimateSummaryTokens: the observations' share.
RECURSIVE observationTokens(_)
observationTokens(keyObservations) ==
  IF keyObservations = <<>> THEN 0
  ELSE (Len(Head(keyObservations)) + 3) \div 4
         + observationTokens(Tail(keyObservations))

\* function estimateSummaryTokens
estimateSummaryTokens(input) ==
  LET narrativeTokens == (Len(input.narrative) + 3) \div 4
      tagTokens == Len(input.tags) * 2
  IN narrativeTokens + observationTokens(input.keyObservations) + tagTokens

\* s => s.startId >= startId && s.endId <= endId
inside(s, startId, endId) == s.startId >= startId /\ s.endId <= endId

\* summaries.filter(...): the existing summaries inside the new range.
subsumedSummaries(sums, startId, endId) ==
  SelectSeq(sums, LAMBDA s : inside(s, startId, endId))

\* Math.max(...subsumedSummaries.map(s => s.orderNum))
maxOrderNum(rows) ==
  CHOOSE n \in {rows[i].orderNum : i \in DOMAIN rows} :
    \A i \in DOMAIN rows : rows[i].orderNum <= n

\* The order computed for every summary regardless of what it subsumes.
newOrder_flat(sums, startId, endId) == 1

\* const newOrder = maxSubsumedOrder + 1
newOrder(sums, startId, endId) ==
  LET subsumed == subsumedSummaries(sums, startId, endId)
      maxSubsumedOrder == IF Len(subsumed) > 0 THEN maxOrderNum(subsumed) ELSE 0
  IN maxSubsumedOrder + 1

\* function collectValidIds
collectValidIds(messages, sums) ==
  {sums[i].startId : i \in DOMAIN sums} \cup {sums[i].endId : i \in DOMAIN sums}
    \cup DOMAIN messages

\* The validation that lets a reversed range through.
rejection_noOrderCheck(validIds, startId, endId) ==
  IF startId \notin validIds THEN "Error: startId is not a visible ID"
  ELSE IF endId \notin validIds THEN "Error: endId is not a visible ID"
  ELSE ""

\* executeCompactionTool, "Validate IDs": the error a create_summary call is
\* answered with, "" when it passes.
rejection(validIds, startId, endId) ==
  IF startId \notin validIds THEN "Error: startId is not a visible ID"
  ELSE IF endId \notin validIds THEN "Error: endId is not a visible ID"
  ELSE IF startId > endId THEN "Error: startId must be <= endId"
  ELSE ""

\* finish_compaction answered without done.
executeCompactionTool_notDone(toolName, args, sums, validIds) ==
  IF toolName = "create_summary"
  THEN LET error == rejection(validIds, args.startId, args.endId)
       IN IF error # ""
          THEN [output |-> error, done |-> FALSE, summaryCreated |-> FALSE,
                summaries |-> sums]
          ELSE [output |-> "Created", done |-> FALSE, summaryCreated |-> TRUE,
                summaries |-> Append(sums,
                  [orderNum |-> newOrder(sums, args.startId, args.endId),
                   startId |-> args.startId, endId |-> args.endId,
                   narrative |-> args.narrative,
                   tokenEstimate |-> estimateSummaryTokens(
                     [narrative |-> args.narrative,
                      keyObservations |-> args.keyObservations,
                      tags |-> <<>>])])]
  ELSE [output |-> "Unknown tool", done |-> FALSE, summaryCreated |-> FALSE,
        summaries |-> sums]

\* function executeCompactionTool: what it returns, and table
\* temporal_summaries after it.
executeCompactionTool(toolName, args, sums, validIds) ==
  IF toolName = "create_summary"
  THEN LET error == rejection(validIds, args.startId, args.endId)
       IN IF error # ""
          THEN [output |-> error, done |-> FALSE, summaryCreated |-> FALSE,
                summaries |-> sums]
          ELSE [output |-> "Created", done |-> FALSE, summaryCreated |-> TRUE,
                summaries |-> Append(sums,
                  [orderNum |-> newOrder(sums, args.startId, args.endId),
                   startId |-> args.startId, endId |-> args.endId,
                   narrative |-> args.narrative,
                   tokenEstimate |-> estimateSummaryTokens(
                     [narrative |-> args.narrative,
                      keyObservations |-> args.keyObservations,
                      tags |-> <<>>])])]
  ELSE IF toolName = "finish_compaction"
  THEN [output |-> "Compaction complete", done |-> TRUE,
        summaryCreated |-> FALSE, summaries |-> sums]
  ELSE [output |-> "Unknown tool", done |-> FALSE, summaryCreated |-> FALSE,
        summaries |-> sums]

\* The summaries no summary of a higher order contains.
topLevel(sums) ==
  {i \in DOMAIN sums :
     ~\E j \in DOMAIN sums :
        /\ sums[j].orderNum > sums[i].orderNum
        /\ inside(sums[i], sums[j].startId, sums[j].endId)}

\* A message is covered when a top-level summary's range holds its id.
covered(sums, id) ==
  \E i \in topLevel(sums) : sums[i].startId <= id /\ id <= sums[i].endId

RECURSIVE uncoveredTokens(_, _, _)
\* The token estimates of the uncovered ones of the first n messages.
uncoveredTokens(messages, sums, n) ==
  IF n = 0 THEN 0
  ELSE (IF covered(sums, n) THEN 0 ELSE messages[n].tokenEstimate)
         + uncoveredTokens(messages, sums, n - 1)

RECURSIVE topLevelTokens(_, _)
\* The token estimates of the top-level ones of the first n summaries.
topLevelTokens(sums, n) ==
  IF n = 0 THEN 0
  ELSE (IF n \in topLevel(sums) THEN sums[n].tokenEstimate ELSE 0)
         + topLevelTokens(sums, n - 1)

\* storage.temporal.estimateUncompactedTokens
estimateUncompactedTokens(messages, sums) ==
  uncoveredTokens(messages, sums, Len(messages)) + topLevelTokens(sums, Len(sums))


\* storage.workers.complete
workersComplete(rows, workerId) ==
  [rows EXCEPT ![workerId].status = "completed"]

\* storage.workers.fail
workersFail(rows, workerId, error) ==
  [rows EXCEPT ![workerId].status = "failed", ![workerId].error = error]

\* The temporal log when the compaction is triggered.
SeedTemporal ==
  appendMessage(appendMessage(<<>>, "user", "abcdefgh"), "assistant", "ijklmnop")

\* config.compactionTarget: below and above what the seeded log holds.
Targets == {3, 100}

\* The ids the model may name: 0 names nothing, the others a message that
\* exists by now or will.
Ids == 0 .. (Len(SeedTemporal) + MaxAppends)

\* args.keyObservations
KeyObservations == <<"fact">>

\* A create_summary tool call.
createSummaryCall(startId, endId, narrative) ==
  [toolName |-> "create_summary", startId |-> startId, endId |-> endId,
   narrative |-> narrative, keyObservations |-> KeyObservations]

\* The tool calls of the model, over every pair of ids.
ToolCalls ==
  {createSummaryCall(a, b, "gist") : a \in Ids, b \in Ids}
    \cup {[NoToolCall EXCEPT !.toolName = "finish_compaction"],
          [NoToolCall EXCEPT !.toolName = "other"]}

\* The tool calls of the model that runCompaction is run against: a summary
\* of the whole seeded log, short or longer than what it covers, a summary
\* of its first message, and the calls without ids.
LoopCalls ==
  {createSummaryCall(1, Len(SeedTemporal), "gist"),
   createSummaryCall(1, Len(SeedTemporal), "a narrative that is long"),
   createSummaryCall(1, 1, "gist"),
   [NoToolCall EXCEPT !.toolName = "finish_compaction"],
   [NoToolCall EXCEPT !.toolName = "other"]}

\* The body of the loop over response.toolCalls for one tool call: the locals
\* and the table after it.
handleToolCall(c, sums, toolCall) ==
  LET r == executeCompactionTool(toolCall.toolName, toolCall, sums, c.validIds)
  IN [summaries |-> r.summaries,
      compaction |->
        [c EXCEPT !.result.summariesCreated =
                    IF r.summaryCreated THEN @ + 1 ELSE @,
                  !.turnDone = IF r.done THEN TRUE ELSE @,
                  !.toolCall = toolCall,
                  !.output = r.output,
                  !.finished = @ \/ toolCall.toolName = "finish_compaction"]]

\* What a step of the compaction leaves alone.
CompactionUnchanged ==
  UNCHANGED <<serverVars, ltmVars, agentLocals, budgetVars, rpcVars>>

\* runCompactionWorker up to the call of runCompaction: the worker row.
WorkerCreate ==
  /\ worker = "idle"
  /\ workers' = Append(workers, [type |-> "temporal-compact",
                                 status |-> "running", error |-> NULL])
  /\ worker' = "running"
  /\ \E target \in Targets :
       compaction' = [NoCompaction EXCEPT !.pc = "start", !.target = target]
  /\ UNCHANGED <<temporal, summaries>>
  /\ CompactionUnchanged

\* runCompaction up to the outer loop.
CompactionStart ==
  /\ compaction.pc = "start"
  /\ LET tokensBefore == estimateUncompactedTokens(temporal, summaries)
     IN compaction' =
          IF tokensBefore <= compaction.target
          THEN [compaction EXCEPT !.result.tokensBefore = tokensBefore,
                                  !.result.tokensAfter = tokensBefore,
                                  !.pc = "returned"]
          ELSE [compaction EXCEPT !.result.tokensBefore = tokensBefore,
                                  !.turn = 0,
                                  !.pc = "turn"]
  /\ UNCHANGED <<temporal, summaries, workers, worker>>
  /\ CompactionUnchanged

\* The head of the outer loop: the turn is counted, the loop is left when the
\* estimate is within the target, else validIds are collected and the inner
\* loop is entered.
OuterTurn ==
  /\ compaction.pc = "turn"
  /\ LET currentTokens == estimateUncompactedTokens(temporal, summaries)
         counted == [compaction EXCEPT !.result.turnsUsed = @ + 1]
     IN compaction' =
          IF currentTokens <= compaction.target
          THEN [counted EXCEPT !.pc = "end"]
          ELSE [counted EXCEPT !.validIds = collectValidIds(temporal, summaries),
                               !.turnDone = FALSE,
                               !.innerTurns = 0,
                               !.toolCall = NoToolCall,
                               !.output = "",
                               !.finished = FALSE,
                               !.pc = "inner"]
  /\ UNCHANGED <<temporal, summaries, workers, worker>>
  /\ CompactionUnchanged

\* The inner loop going on whatever innerTurns has reached.
CompactionGenerate_uncapped ==
  /\ compaction.pc = "inner"
  /\ ~compaction.turnDone
  /\ \E toolCalls \in 0 .. MaxToolCalls :
       compaction' =
         IF toolCalls > 0
         THEN [compaction EXCEPT !.innerTurns = @ + 1,
                                 !.pending = toolCalls,
                                 !.toolCall = NoToolCall,
                                 !.output = "",
                                 !.pc = "tools"]
         ELSE [compaction EXCEPT !.innerTurns = @ + 1,
                                 !.toolCall = NoToolCall,
                                 !.output = "",
                                 !.turnDone = TRUE]
  /\ UNCHANGED <<temporal, summaries, workers, worker>>
  /\ CompactionUnchanged

\* An iteration of the inner loop up to the loop over the tool calls: the
\* model is called; an answer without tool calls ends the turn.
CompactionGenerate ==
  /\ compaction.pc = "inner"
  /\ ~compaction.turnDone /\ compaction.innerTurns < maxInnerTurns
  /\ \E toolCalls \in 0 .. MaxToolCalls :
       compaction' =
         IF toolCalls > 0
         THEN [compaction EXCEPT !.innerTurns = @ + 1,
                                 !.pending = toolCalls,
                                 !.toolCall = NoToolCall,
                                 !.output = "",
                                 !.pc = "tools"]
         ELSE [compaction EXCEPT !.innerTurns = @ + 1,
                                 !.toolCall = NoToolCall,
                                 !.output = "",
                                 !.turnDone = TRUE]
  /\ UNCHANGED <<temporal, summaries, workers, worker>>
  /\ CompactionUnchanged

\* Provider.generate rejects: runCompaction throws.
CompactionGenerateThrows ==
  /\ compaction.pc = "inner"
  /\ ~compaction.turnDone /\ compaction.innerTurns < maxInnerTurns
  /\ compaction' = [compaction EXCEPT !.innerTurns = @ + 1,
                                      !.toolCall = NoToolCall,
                                      !.output = "",
                                      !.pc = "thrown"]
  /\ UNCHANGED <<temporal, summaries, workers, worker>>
  /\ CompactionUnchanged

\* The loop over response.toolCalls executes its next tool call.
ExecuteCompactionTool ==
  /\ compaction.pc = "tools"
  /\ \E toolCall \in LoopCalls :
       LET after == handleToolCall(compaction, summaries, toolCall)
       IN /\ Len(after.summaries) <= MaxSummaries
          /\ summaries' = after.summaries
          /\ compaction' =
               [after.compaction EXCEPT
                  !.pending = @ - 1,
                  !.pc = IF compaction.pending = 1 THEN "inner" ELSE "tools"]
  /\ UNCHANGED <<temporal, workers, worker>>
  /\ CompactionUnchanged

\* The inner loop is left: the outer loop's turn++ and its test.
NextTurn ==
  /\ compaction.pc = "inner"
  /\ ~(~compaction.turnDone /\ compaction.innerTurns < maxInnerTurns)
  /\ compaction' =
       [compaction EXCEPT
          !.turn = @ + 1,
          !.pc = IF compaction.turn + 1 < MAX_COMPACTION_TURNS
                 THEN "turn" ELSE "end"]
  /\ UNCHANGED <<temporal, summaries, workers, worker>>
  /\ CompactionUnchanged

\* runCompaction past the outer loop.
CompactionReturn ==
  /\ compaction.pc = "end"
  /\ compaction' =
       [compaction EXCEPT
          !.result.tokensAfter = estimateUncompactedTokens(temporal, summaries),
          !.pc = "returned"]
  /\ UNCHANGED <<temporal, summaries, workers, worker>>
  /\ CompactionUnchanged

\* runCompactionWorker, the try block after runCompaction has returned.
WorkerComplete ==
  /\ worker = "running"
  /\ compaction.pc = "returned"
  /\ workers' = workersComplete(workers, Len(workers))
  /\ worker' = "returned"
  /\ UNCHANGED <<temporal, summaries, compaction>>
  /\ CompactionUnchanged

\* runCompactionWorker, the catch block: the row is updated and the error is
\* thrown again.
WorkerFail ==
  /\ worker = "running"
  /\ compaction.pc = "thrown"
  /\ workers' = workersFail(workers, Len(workers), "generate failed")
  /\ worker' = "thrown"
  /\ UNCHANGED <<temporal, summaries, compaction>>
  /\ CompactionUnchanged

\* A main turn appends a message to the temporal log while the worker runs.
MainTurnAppends ==
  /\ worker = "running"
  /\ Len(temporal) < Len(SeedTemporal) + MaxAppends
  /\ temporal' = appendMessage(temporal, "user", "more")
  /\ UNCHANGED <<summaries, compaction, workers, worker>>
  /\ CompactionUnchanged

\* The compaction is triggered on the seeded log.
InitCompaction ==
  /\ BudgetIdle
  /\ RpcIdle
  /\ ServerInit
  /\ LtmIdle
  /\ agentPc = "idle"
  /\ agentTurn = 0
  /\ agentMessages = <<>>
  /\ agentResult = NoResult
  /\ finalResponse = ""
  /\ totalInputTokens = 0
  /\ totalOutputTokens = 0
  /\ modelCalls = <<>>
  /\ temporal = SeedTemporal
  /\ CompactionIdle

\* A step of runCompactionWorker.
CompactionStep ==
  \/ WorkerCreate
  \/ CompactionStart
  \/ OuterTurn
  \/ CompactionGenerate
  \/ CompactionGenerateThrows
  \/ ExecuteCompactionTool
  \/ NextTurn
  \/ CompactionReturn
  \/ WorkerComplete
  \/ WorkerFail

NextCompaction ==
  \/ CompactionStep
  \/ MainTurnAppends

SpecCompaction == InitCompaction /\ [][NextCompaction]_vars

\* Every call of the storage and of the model that runCompactionWorker is
\* waiting for is answered.
FairSpecCompaction == SpecCompaction /\ WF_vars(CompactionStep)


\* The tools of the compaction agent against the store, whatever the loops
\* of runCompaction let through: a run that is in its first outer turn, any
\* number of tool calls in a turn and any number of turns.

\* runCompaction in its first outer turn, its first response being handled.
InitTools ==
  /\ BudgetIdle
  /\ RpcIdle
  /\ ServerInit
  /\ LtmIdle
  /\ agentPc = "idle"
  /\ agentTurn = 0
  /\ agentMessages = <<>>
  /\ agentResult = NoResult
  /\ finalResponse = ""
  /\ totalInputTokens = 0
  /\ totalOutputTokens = 0
  /\ modelCalls = <<>>
  /\ temporal = SeedTemporal
  /\ summaries = <<>>
  /\ workers = <<[type |-> "temporal-compact", status |-> "running",
                  error |-> NULL]>>
  /\ worker = "running"
  /\ \E target \in {t \in Targets :
                      estimateUncompactedTokens(SeedTemporal, <<>>) > t} :
       compaction =
         [NoCompaction EXCEPT
            !.pc = "tools",
            !.target = target,
            !.validIds = collectValidIds(SeedTemporal, <<>>),
            !.innerTurns = 1,
            !.pending = 1,
            !.result.tokensBefore = estimateUncompactedTokens(SeedTemporal, <<>>),
            !.result.turnsUsed = 1]

\* A tool call of the model is executed.
AnyToolCall(toolCall) ==
  /\ LET after == handleToolCall(compaction, summaries, toolCall)
     IN /\ Len(after.summaries) <= MaxSummaries
        /\ summaries' = after.summaries
        /\ compaction' = after.compaction
  /\ UNCHANGED <<temporal, workers, worker>>
  /\ CompactionUnchanged

\* A further outer turn collects validIds.
AnyOuterTurn ==
  /\ compaction' =
       [compaction EXCEPT !.validIds = collectValidIds(temporal, summaries),
                          !.turnDone = FALSE,
                          !.toolCall = NoToolCall,
                          !.output = "",
                          !.finished = FALSE]
  /\ UNCHANGED <<temporal, summaries, workers, worker>>
  /\ CompactionUnchanged

NextTools ==
  \/ \E toolCall \in ToolCalls : AnyToolCall(toolCall)
  \/ AnyOuterTurn
  \/ MainTurnAppends

SpecTools == InitTools /\ [][NextTools]_vars

\* ----------------------------------------------- turn and compaction together
\* A turn of the agent loop, with its tool errors, model errors and interrupts,
\* while the compaction agent's tool calls are executed on the same storage,
\* which holds the log of an earlier turn.

\* What Provider.generate resolves with here: a text and a call of bash first,
\* then a text alone.
BriefAnswers(turn, messages) ==
  {[text |-> "ok", toolCalls |-> toolCalls,
    usage |-> usageOf(messages, "ok", toolCalls),
    toolResultParts |-> <<>>, toolResult |-> ""] :
     toolCalls \in (IF turn = 0 THEN {<<"bash">>} ELSE {<<>>})}

\* The Server has started a turn on the seeded log while runCompaction is in
\* its first outer turn.
InitMemory ==
  /\ BudgetIdle
  /\ RpcIdle
  /\ currentTurn = AgentTurnId
  /\ messageQueue = <<>>
  /\ processing = FALSE
  /\ stdout = <<>>
  /\ turns = <<TurnState(1, "handleUserMessage")>>
  /\ received = 1
  /\ controls = 0
  /\ toolResults = 0
  /\ arrivedDuring = <<Null>>
  /\ consumed = <<[msg |-> 1, how |-> "turn", turn |-> AgentTurnId]>>
  /\ hookReturn = NotCalled
  /\ line = NoLine
  /\ LtmIdle
  /\ agentPc = "start"
  /\ agentTurn = 0
  /\ agentMessages = <<>>
  /\ agentResult = NoResult
  /\ finalResponse = ""
  /\ totalInputTokens = 0
  /\ totalOutputTokens = 0
  /\ modelCalls = <<>>
  /\ temporal = SeedTemporal
  /\ summaries = <<>>
  /\ workers = <<[type |-> "temporal-compact", status |-> "running",
                  error |-> NULL]>>
  /\ worker = "running"
  /\ compaction =
       [NoCompaction EXCEPT
          !.pc = "tools",
          !.target = 3,
          !.validIds = collectValidIds(SeedTemporal, <<>>),
          !.innerTurns = 1,
          !.pending = 1,
          !.result.tokensBefore = estimateUncompactedTokens(SeedTemporal, <<>>),
          !.result.turnsUsed = 1]

NextMemory ==
  \/ RunAgentStart
  \/ UserLogged
  \/ \E result \in BriefAnswers(agentTurn, agentMessages) : Generate(result)
  \/ GenerateThrows
  \/ AssistantLogged
  \/ ToolCallLogged
  \/ \E outcome \in ToolOutcomes("bash") : ExecuteTool(outcome)
  \/ ToolResultLogged
  \/ Finish
  \/ currentTurn # Null /\ ControlLine
  \/ \E toolCall \in LoopCalls : AnyToolCall(toolCall)
  \/ AnyOuterTurn

SpecMemory == InitMemory /\ [][NextMemory]_vars

\* -------------------------------------------------------------- memory claims

\* C25: no step of a turn, of an interrupt, of a failing model call or tool, or
\* of the compaction agent changes or removes a temporal message or a summary:
\* after every step the log of messages begins with the log as it was before,
\* and so does the sequence of summaries.
C25_TemporalIsAppendOnly ==
  [][/\ Len(temporal') >= Len(temporal)
     /\ SubSeq(temporal', 1, Len(temporal)) = temporal
     /\ Len(summaries') >= Len(summaries)
     /\ SubSeq(summaries', 1, Len(summaries)) = summaries
  ]_vars

\* The turn was interrupted and then ended by a failing model call, after its
\* first tool had failed; the rows written before are all there, behind the
\* log of the earlier turn, and the summary the compaction agent made of that
\* log stands next to them.
C25_Witness ==
  /\ agentPc = "threw"
  /\ turns[AgentTurnId].aborted
  /\ SubSeq(temporal, 1, Len(SeedTemporal)) = SeedTemporal
  /\ Len(temporal) = Len(SeedTemporal) + 4
  /\ temporal[Len(temporal)].type = "tool_result"
  /\ temporal[Len(temporal)].content = "Error: " \o LongMessage
  /\ Len(summaries) = 1
  /\ summaries[1].startId = 1
  /\ summaries[1].endId = Len(SeedTemporal)

\* -------------------------------------------------------- compaction claims

\* C15: a create_summary call whose startId or endId is not in the validIds
\* of the current outer turn, or whose startId is greater than its endId, is
\* answered with an error tool result and inserts no summary; a summary is
\* inserted only with startId <= endId and both ids in validIds, so every
\* stored summary has startId <= endId and ids of messages.
C15_InvalidRangeRejected ==
  /\ [][LET call == compaction'.toolCall
        IN (/\ call.toolName = "create_summary"
            /\ \/ call.startId \notin compaction.validIds
               \/ call.endId \notin compaction.validIds
               \/ call.startId > call.endId)
           => /\ summaries' = summaries
              /\ startsWith(compaction'.output, "Error")
              /\ compaction'.result.summariesCreated
                   = compaction.result.summariesCreated]_vars
  /\ [][Len(summaries') > Len(summaries)
          => LET new == summaries'[Len(summaries')]
             IN /\ summaries' = Append(summaries, new)
                /\ new.startId = compaction'.toolCall.startId
                /\ new.endId = compaction'.toolCall.endId
                /\ new.startId <= new.endId
                /\ new.startId \in compaction.validIds
                /\ new.endId \in compaction.validIds
                /\ ~startsWith(compaction'.output, "Error")]_vars
  /\ [](\A i \in DOMAIN summaries :
          /\ summaries[i].startId <= summaries[i].endId
          /\ summaries[i].startId \in DOMAIN temporal
          /\ summaries[i].endId \in DOMAIN temporal)

\* The id of a message appended since validIds were collected has been
\* refused, and so has a reversed range, next to a stored summary.
C15_Witness ==
  /\ Len(summaries) > 0
  /\ compaction.toolCall.toolName = "create_summary"
  /\ startsWith(compaction.output, "Error")
  /\ \/ /\ compaction.toolCall.endId \in DOMAIN temporal
        /\ compaction.toolCall.endId \notin compaction.validIds
     \/ /\ compaction.toolCall.startId \in compaction.validIds
        /\ compaction.toolCall.endId \in compaction.validIds
        /\ compaction.toolCall.startId > compaction.toolCall.endId

\* C16: an inserted summary has order 1 + the greatest order among the
\* existing summaries whose range lies inside its range, order 1 when there
\* is none; every stored summary of order n+1 has a summary of order n
\* inside its range.
C16_OrderIsMaxSubsumedPlusOne ==
  /\ [][Len(summaries') > Len(summaries)
          => LET new == summaries'[Len(summaries')]
                 within == {i \in DOMAIN summaries :
                              /\ new.startId <= summaries[i].startId
                              /\ summaries[i].endId <= new.endId}
             IN /\ within = {} => new.orderNum = 1
                /\ within # {} =>
                     /\ \E i \in within : new.orderNum = summaries[i].orderNum + 1
                     /\ \A i \in within : summaries[i].orderNum < new.orderNum]_vars
  /\ [](\A i \in DOMAIN summaries :
          /\ summaries[i].orderNum >= 1
          /\ summaries[i].orderNum > 1 =>
               \E j \in DOMAIN summaries :
                 /\ summaries[j].orderNum = summaries[i].orderNum - 1
                 /\ summaries[i].startId <= summaries[j].startId
                 /\ summaries[j].endId <= summaries[i].endId)

\* A summary of order 2 is stored, over a summary of order 1, next to a
\* call that found nothing inside its range.
C16_Witness ==
  /\ \E i, j \in DOMAIN summaries :
       /\ j < i
       /\ summaries[j].orderNum = 1
       /\ summaries[i].orderNum = 2
       /\ summaries[i].startId <= summaries[j].startId
       /\ summaries[j].endId <= summaries[i].endId
       /\ summaries[i].startId < summaries[i].endId


\* C17 as stated: after a finish_compaction call no further outer turn of the
\* run enters its inner loop, whatever the token estimate and the turns used.
C17_FinishEndsOuterLoop ==
  [][compaction.finished => ~(compaction.pc = "turn" /\ compaction'.pc = "inner")]_vars

\* C17: a finish_compaction call ends the current outer turn only. It sets
\* turnDone; no model call is made in the rest of that outer turn; the inner
\* loop is left for the outer loop's next turn, which is counted and enters a
\* new inner loop unless the estimate is within the target; only after the
\* tenth turn is the outer loop left without that test.
C17_FinishEndsTurnOnly ==
  /\ [](compaction.finished => compaction.turnDone)
  /\ [][(compaction.finished /\ compaction.pc \in {"tools", "inner"})
          => /\ ~CompactionGenerate
             /\ ~CompactionGenerateThrows
             /\ compaction'.innerTurns = compaction.innerTurns
             /\ compaction'.pc \in {"tools", "inner", "turn", "end"}]_vars
  /\ [][(compaction.finished /\ compaction.pc = "inner" /\ compaction' # compaction)
          => /\ compaction'.turn = compaction.turn + 1
             /\ compaction'.pc = IF compaction'.turn < MAX_COMPACTION_TURNS
                                 THEN "turn" ELSE "end"]_vars
  /\ [][(compaction.finished /\ compaction.pc = "turn" /\ compaction' # compaction)
          => /\ compaction'.result.turnsUsed = compaction.result.turnsUsed + 1
             /\ IF estimateUncompactedTokens(temporal, summaries) > compaction.target
                THEN /\ compaction'.pc = "inner"
                     /\ compaction'.innerTurns = 0
                     /\ ~compaction'.turnDone
                ELSE compaction'.pc = "end"]_vars

\* finish_compaction has been executed, the inner loop has been left with
\* turns to spare and the estimate is above the target: the next outer turn
\* is about to make a model call.
C17_Witness ==
  /\ compaction.finished
  /\ compaction.toolCall.toolName = "finish_compaction"
  /\ compaction.pc = "turn"
  /\ compaction.turn < MAX_COMPACTION_TURNS
  /\ estimateUncompactedTokens(temporal, summaries) > compaction.target

\* C18 as stated: a compaction run returns tokensAfter <= tokensBefore.
C18_TokensNeverGrow ==
  compaction.pc = "returned"
    => compaction.result.tokensAfter <= compaction.result.tokensBefore

\* C19: runCompaction terminates; it makes at most 10 outer turns of at most
\* 5 model calls each; it leaves the outer loop only on an estimate within
\* the target or with all 10 turns used; with an estimate within the target
\* at the start it returns without a model call and without a summary.
C19_BoundedAndTerminates ==
  /\ [](/\ compaction.result.turnsUsed <= MAX_COMPACTION_TURNS
        /\ compaction.innerTurns <= maxInnerTurns)
  /\ [][(CompactionGenerate \/ CompactionGenerateThrows)
          => /\ compaction'.innerTurns = compaction.innerTurns + 1
             /\ compaction'.result.turnsUsed = compaction.result.turnsUsed]_vars
  /\ [][compaction'.innerTurns # compaction.innerTurns
          => \/ CompactionGenerate
             \/ CompactionGenerateThrows
             \/ /\ compaction'.innerTurns = 0
                /\ compaction'.result.turnsUsed > compaction.result.turnsUsed]_vars
  /\ [][compaction'.result.turnsUsed # compaction.result.turnsUsed
          => \/ compaction'.result.turnsUsed = compaction.result.turnsUsed + 1
             \/ compaction'.pc = "start"]_vars
  /\ [][(compaction.pc # "end" /\ compaction'.pc = "end")
          => \/ estimateUncompactedTokens(temporal, summaries) <= compaction.target
             \/ compaction'.result.turnsUsed = MAX_COMPACTION_TURNS]_vars
  /\ [][(compaction.pc # "returned" /\ compaction'.pc = "returned")
          => \/ compaction.pc = "end"
             \/ /\ compaction.pc = "start"
                /\ compaction'.result.tokensBefore <= compaction.target
                /\ compaction'.result.tokensAfter = compaction'.result.tokensBefore
                /\ compaction'.result.turnsUsed = 0
                /\ compaction'.innerTurns = 0
                /\ compaction'.result.summariesCreated = 0
                /\ summaries' = summaries]_vars
  /\ [][(/\ compaction.pc = "start"
         /\ compaction' # compaction
         /\ estimateUncompactedTokens(temporal, summaries) <= compaction.target)
          => compaction'.pc = "returned"]_vars
  /\ <>(compaction.pc \in {"returned", "thrown"})

\* A run has returned above its target after 10 outer turns, the last of
\* them with 5 model calls.
C19_Witness ==
  /\ compaction.pc = "returned"
  /\ compaction.result.turnsUsed = MAX_COMPACTION_TURNS
  /\ compaction.innerTurns = maxInnerTurns
  /\ compaction.result.tokensAfter > compaction.target

\* C20 as stated: the worker row is created running; a failed run is recorded
\* as failed with the error and is not thrown to the caller; a run that
\* succeeds leaves the row completed; the row is not running once
\* runCompactionWorker has ended.
C20_FailureStaysOnTheRow ==
  /\ [](worker = "running" /\ compaction.pc \notin {"returned", "thrown"}
          => workers[Len(workers)].status = "running")
  /\ [](worker = "returned" => workers[Len(workers)].status = "completed")
  /\ [](compaction.pc = "thrown" /\ worker # "running"
          => /\ workers[Len(workers)].status = "failed"
             /\ workers[Len(workers)].error # NULL)
  /\ [](worker # "thrown")

\* C39: any two stored summaries cover id ranges that are disjoint or of which
\* one lies inside the other; no two summaries overlap in part.
C39_SummariesDisjointOrNested ==
  \A i, j \in DOMAIN summaries :
    LET a == summaries[i]
        b == summaries[j]
    IN \/ a.endId < b.startId
       \/ b.endId < a.startId
       \/ (a.startId <= b.startId /\ b.endId <= a.endId)
       \/ (b.startId <= a.startId /\ a.endId <= b.endId)

\* ------------------------------------------------------------ recent history
\* buildSystemPrompt (src/src/agent/index.ts): the part of the temporal log
\* that goes into the prompt.

\* Rows of the temporal log whose update the prompt is built from.
MaxRows == 3

\* The largest config.tokenBudgets.temporalBudget.
MaxTemporalBudget == 4

\* Contents of 0, 1, 2 and 3 estimated tokens.
Contents == {"", "abc", "abcdefgh", "abcdefghijkl"}

\* The logs of n rows that appendMessage can have written.
RECURSIVE Logs(_)
Logs(n) ==
  IF n = 0 THEN {<<>>}
  ELSE Logs(n - 1)
         \cup {appendMessage(log, "user", content) :
                 log \in {l \in Logs(n - 1) : Len(l) = n - 1}, content \in Contents}

\* storage.temporal.getMessages(): the rows with their ids, id ascending.
getMessages(log) == [i \in DOMAIN log |-> log[i] @@ [id |-> i]]

\* A selection that passes over a message that does not fit and goes on with
\* the older ones.
RECURSIVE selectRecent_skipping(_, _, _, _, _)
selectRecent_skipping(allMessages, i, selected, temporalTokens, limit) ==
  IF i < 1 THEN selected
  ELSE LET msg == allMessages[i]
       IN IF temporalTokens + msg.tokenEstimate > limit
          THEN selectRecent_skipping(allMessages, i - 1, selected, temporalTokens,
                                     limit)
          ELSE selectRecent_skipping(allMessages, i - 1, <<msg>> \o selected,
                                     temporalTokens + msg.tokenEstimate, limit)

\* buildSystemPrompt, "Select recent messages that fit within budget (newest
\* first)": the loop from index i down, with what it has selected so far.
RECURSIVE selectRecent(_, _, _, _, _)
selectRecent(allMessages, i, selected, temporalTokens, limit) ==
  IF i < 1 THEN selected
  ELSE LET msg == allMessages[i]
       IN IF temporalTokens + msg.tokenEstimate > limit
          THEN selected
          ELSE selectRecent(allMessages, i - 1, <<msg>> \o selected,
                            temporalTokens + msg.tokenEstimate, limit)

\* buildSystemPrompt is called on the log as it is.
BuildSystemPrompt ==
  /\ budgeted.fn = "none"
  /\ selectedMessages' =
       selectRecent(getMessages(temporal), Len(temporal), <<>>, 0, temporalBudget)
  /\ budgeted' = [budgeted EXCEPT !.fn = "buildSystemPrompt"]
  /\ UNCHANGED <<temporalBudget, blocks, targetIndex, budget, temporal>>
  /\ UNCHANGED <<serverVars, ltmVars, agentLocals, compactionVars, rpcVars>>

\* Any log of earlier turns and any budget.
InitPrompt ==
  /\ ServerInit
  /\ LtmIdle
  /\ agentPc = "idle"
  /\ agentTurn = 0
  /\ agentMessages = <<>>
  /\ agentResult = NoResult
  /\ finalResponse = ""
  /\ totalInputTokens = 0
  /\ totalOutputTokens = 0
  /\ modelCalls = <<>>
  /\ CompactionIdle
  /\ RpcIdle
  /\ temporal \in Logs(MaxRows)
  /\ temporalBudget \in 0..MaxTemporalBudget
  /\ selectedMessages = <<>>
  /\ blocks = <<>>
  /\ targetIndex = 0
  /\ budget = [finite |-> TRUE, value |-> 0]
  /\ budgeted = [fn |-> "none", blocks |-> <<>>, truncated |-> FALSE,
                 indices |-> {}]

NextPrompt == BuildSystemPrompt

SpecPrompt == InitPrompt /\ [][NextPrompt]_vars

\* ----------------------------------------------------- recent history claims

\* C31: the messages buildSystemPrompt selects are, oldest first, the longest
\* suffix of the id-ascending log whose token estimates sum to at most
\* temporalBudget; so every message newer than a selected one is selected.
C31_RecentHistoryIsLongestFittingSuffix ==
  budgeted.fn = "buildSystemPrompt"
    => LET allMessages == getMessages(temporal)
           n == Len(allMessages)
           RECURSIVE tokensFrom(_)
           tokensFrom(k) ==
             IF k > n THEN 0 ELSE allMessages[k].tokenEstimate + tokensFrom(k + 1)
           fits == {k \in 1..(n + 1) : tokensFrom(k) <= temporalBudget}
           first == CHOOSE k \in fits : \A j \in fits : k <= j
       IN selectedMessages = SubSeq(allMessages, first, n)

\* The newest message was selected; the one before it does not fit beside it
\* and was not, nor was the oldest, which would have fitted.
C31_Witness ==
  /\ budgeted.fn = "buildSystemPrompt"
  /\ Len(temporal) = 3
  /\ Len(selectedMessages) = 1
  /\ selectedMessages[1].id = 3
  /\ temporal[2].tokenEstimate > temporalBudget - temporal[3].tokenEstimate
  /\ temporal[1].tokenEstimate <= temporalBudget - temporal[3].tokenEstimate

\* -------------------------------------------------------------- token budgets
\* src/src/temporal/query-budget.ts. Indices are those of the code, from 0.

\* Blocks in one call.
MaxBlocks == 4

\* The largest finite budget.
MaxBudget == 3

\* const CHARS_PER_TOKEN
CHARS_PER_TOKEN == 4

\* Blocks of 0, 1 and 3 estimated tokens.
BlockTexts == {"", "ab", "abcdefghi"}

\* The arrays of up to n blocks.
RECURSIVE BlockLists(_)
BlockLists(n) ==
  IF n = 0 THEN {<<>>}
  ELSE BlockLists(n - 1)
         \cup {Append(list, text) :
                 list \in {l \in BlockLists(n - 1) : Len(l) = n - 1},
                 text \in BlockTexts}

\* A budget argument: a finite number, or one of the values Number.isFinite
\* rejects (undefined, NaN, an infinity).
Finite(value) == [finite |-> TRUE, value |-> value]

NonFinite == [finite |-> FALSE, value |-> 0]

Budgets == {Finite(value) : value \in -1..MaxBudget} \cup {NonFinite}

\* The character U+2026 that marks a truncation: one UTF-16 code unit, written
\* here as one ASCII character that occurs in no block.
HorizontalEllipsis == "~"

\* function estimateTokens of query-budget.ts: Math.ceil(text.length / 4).
estimateBlockTokens(text) == (Len(text) + CHARS_PER_TOKEN - 1) \div CHARS_PER_TOKEN

\* A truncation that appends the ellipsis to a full maxChars characters.
truncateToTokenBudget_oneMore(text, b) ==
  IF ~b.finite \/ b.value <= 0 THEN ""
  ELSE LET maxChars == b.value * CHARS_PER_TOKEN
       IN IF Len(text) <= maxChars THEN text
          ELSE SubSeq(text, 1, maxChars) \o HorizontalEllipsis

\* function truncateToTokenBudget
truncateToTokenBudget(text, b) ==
  IF ~b.finite \/ b.value <= 0 THEN ""
  ELSE LET maxChars == IF b.value * CHARS_PER_TOKEN > 0
                       THEN b.value * CHARS_PER_TOKEN ELSE 0
       IN IF Len(text) <= maxChars THEN text
          ELSE IF maxChars <= 1 THEN HorizontalEllipsis
          ELSE SubSeq(text, 1, maxChars - 1) \o HorizontalEllipsis

\* What both functions return, and (history) the indices of the blocks returned.
Budgeted(fn, list, truncated, indices) ==
  [fn |-> fn, blocks |-> list, truncated |-> truncated, indices |-> indices]

\* applyTokenBudgetToBlocks, the for loop from block i on.
RECURSIVE blocksLoop(_, _, _, _, _)
blocksLoop(list, i, selected, totalTokens, b) ==
  IF i >= Len(list)
  THEN Budgeted("applyTokenBudgetToBlocks", selected, Len(selected) < Len(list),
                0..(Len(selected) - 1))
  ELSE LET block == list[i + 1]
           blockTokens == estimateBlockTokens(block)
       IN IF Len(selected) = 0 /\ blockTokens > b.value
          THEN Budgeted("applyTokenBudgetToBlocks",
                        <<truncateToTokenBudget(block, b)>>, TRUE, {i})
          ELSE IF totalTokens + blockTokens > b.value
          THEN Budgeted("applyTokenBudgetToBlocks", selected,
                        Len(selected) < Len(list), 0..(Len(selected) - 1))
          ELSE blocksLoop(list, i + 1, Append(selected, block),
                          totalTokens + blockTokens, b)

\* function applyTokenBudgetToBlocks
applyTokenBudgetToBlocks(list, b) ==
  IF ~b.finite
  THEN Budgeted("applyTokenBudgetToBlocks", list, FALSE, 0..(Len(list) - 1))
  ELSE IF b.value <= 0
  THEN Budgeted("applyTokenBudgetToBlocks", <<>>, Len(list) > 0, {})
  ELSE blocksLoop(list, 0, <<>>, 0, b)

\* The closure tryAdd of applyTokenBudgetToContextBlocks: what it returns and
\* the variables it closes over, selected and totalTokens.
tryAdd(st, index, blockTokens, b) ==
  IF index < 0 \/ index >= Len(blockTokens) \/ index \in st.selected
  THEN [st EXCEPT !.added = FALSE]
  ELSE IF st.totalTokens + blockTokens[index + 1] > b.value
  THEN [st EXCEPT !.added = FALSE]
  ELSE [added |-> TRUE, selected |-> st.selected \cup {index},
        totalTokens |-> st.totalTokens + blockTokens[index + 1]]

\* applyTokenBudgetToContextBlocks, the while loop that widens the window.
RECURSIVE contextLoop(_, _, _, _, _)
contextLoop(st, left, right, blockTokens, b) ==
  IF ~(left >= 0 \/ right < Len(blockTokens))
  THEN st
  ELSE LET l == IF left >= 0 THEN tryAdd(st, left, blockTokens, b)
                ELSE [st EXCEPT !.added = FALSE]
           r == IF right < Len(blockTokens) THEN tryAdd(l, right, blockTokens, b)
                ELSE [l EXCEPT !.added = FALSE]
       IN IF ~(l.added \/ r.added)
          THEN r
          ELSE contextLoop(r, left - 1, right + 1, blockTokens, b)

\* Array.from(selected).sort((a, b) => a - b)
RECURSIVE sortAscending(_)
sortAscending(set) ==
  IF set = {} THEN <<>>
  ELSE LET least == CHOOSE x \in set : \A y \in set : x <= y
       IN <<least>> \o sortAscending(set \ {least})

\* function applyTokenBudgetToContextBlocks
applyTokenBudgetToContextBlocks(list, target, b) ==
  IF ~b.finite
  THEN Budgeted("applyTokenBudgetToContextBlocks", list, FALSE,
                0..(Len(list) - 1))
  ELSE IF b.value <= 0
  THEN Budgeted("applyTokenBudgetToContextBlocks", <<>>, Len(list) > 0, {})
  ELSE IF target < 0 \/ target >= Len(list)
  THEN Budgeted("applyTokenBudgetToContextBlocks", <<>>, Len(list) > 0, {})
  ELSE LET blockTokens == [i \in DOMAIN list |-> estimateBlockTokens(list[i])]
       IN IF blockTokens[target + 1] > b.value
          THEN Budgeted("applyTokenBudgetToContextBlocks",
                        <<truncateToTokenBudget(list[target + 1], b)>>, TRUE,
                        {target})
          ELSE LET first == tryAdd([added |-> FALSE, selected |-> {},
                                    totalTokens |-> 0], target, blockTokens, b)
                   st == contextLoop(first, target - 1, target + 1, blockTokens, b)
                   indices == sortAscending(st.selected)
                   ordered == [k \in DOMAIN indices |-> list[indices[k] + 1]]
               IN Budgeted("applyTokenBudgetToContextBlocks", ordered,
                           Len(ordered) < Len(list), st.selected)

\* What the token-budget actions leave alone.
BudgetUnchanged ==
  /\ UNCHANGED <<temporalBudget, selectedMessages, blocks, targetIndex, budget>>
  /\ UNCHANGED <<serverVars, ltmVars, agentVars, compactionVars, rpcVars>>

ApplyTokenBudgetToBlocks ==
  /\ budgeted.fn = "none"
  /\ budgeted' = applyTokenBudgetToBlocks(blocks, budget)
  /\ BudgetUnchanged

ApplyTokenBudgetToContextBlocks ==
  /\ budgeted.fn = "none"
  /\ budgeted' = applyTokenBudgetToContextBlocks(blocks, targetIndex, budget)
  /\ BudgetUnchanged

\* Any blocks, any targetIndex in or out of range and any budget.
InitBudget ==
  /\ ServerInit
  /\ LtmIdle
  /\ AgentIdle
  /\ CompactionIdle
  /\ RpcIdle
  /\ temporalBudget = 0
  /\ selectedMessages = <<>>
  /\ blocks \in BlockLists(MaxBlocks)
  /\ targetIndex \in -1..MaxBlocks
  /\ budget \in Budgets
  /\ budgeted = Budgeted("none", <<>>, FALSE, {})

NextBudget == ApplyTokenBudgetToBlocks \/ ApplyTokenBudgetToContextBlocks

SpecBudget == InitBudget /\ [][NextBudget]_vars

\* ------------------------------------------------------- token budget claims

\* C37: with a finite budget > 0 and a targetIndex in range whose block fits
\* the budget, applyTokenBudgetToContextBlocks returns blocks of the input in
\* their original order, the target's among them, and the indices of the
\* returned blocks are consecutive.
C37_ContextWindowIsContiguous ==
  ( /\ budgeted.fn = "applyTokenBudgetToContextBlocks"
    /\ budget.finite /\ budget.value > 0
    /\ targetIndex >= 0 /\ targetIndex < Len(blocks)
    /\ estimateBlockTokens(blocks[targetIndex + 1]) <= budget.value )
  => LET indices == sortAscending(budgeted.indices)
     IN /\ budgeted.blocks = [k \in DOMAIN indices |-> blocks[indices[k] + 1]]
        /\ targetIndex \in budgeted.indices
        /\ \A i, k \in budgeted.indices :
             \A j \in i..k : j \in budgeted.indices

\* C38: what applyTokenBudgetToBlocks and applyTokenBudgetToContextBlocks
\* return for a finite budget >= 1 never has more estimated tokens in all than
\* the budget, a single truncated block included; for a budget <= 0 it is
\* empty, and for a budget that is not finite it is the input with
\* truncated = false.
C38_ReturnedTokensWithinBudget ==
  budgeted.fn \in {"applyTokenBudgetToBlocks", "applyTokenBudgetToContextBlocks"}
    => LET RECURSIVE tokens(_)
           tokens(list) ==
             IF Len(list) = 0 THEN 0
             ELSE estimateBlockTokens(Head(list)) + tokens(Tail(list))
       IN /\ (budget.finite /\ budget.value >= 1)
               => tokens(budgeted.blocks) <= budget.value
          /\ (budget.finite /\ budget.value <= 0) => budgeted.blocks = <<>>
          /\ ~budget.finite
               => budgeted.blocks = blocks /\ budgeted.truncated = FALSE

\* A block of three tokens was returned alone, cut to a budget of two tokens.
C38_Witness ==
  /\ budgeted.fn \in {"applyTokenBudgetToBlocks", "applyTokenBudgetToContextBlocks"}
  /\ budget = Finite(2)
  /\ budgeted.truncated
  /\ Len(budgeted.blocks) = 1
  /\ Len(budgeted.blocks[1]) = 8
  /\ budgeted.blocks[1] \notin BlockTexts

\* -------------------------------------------------------------- JsonRpcServer
\* src/unnamed/part_004: the JSON-RPC listener with its methods run, cancel and
\* status. As for the Server, a handler runs from one await to the next; the
\* only await of handleRun is that of runAgent, and while it is pending the
\* host dispatches further "line" events.

\* JSON-RPC requests read from stdin in one run.
MaxRpcLines == 4

\* tool_result events the agent loops report in one run.
MaxRpcEvents == 1

\* ErrorCodes
INVALID_PARAMS == -32602

ALREADY_RUNNING == -32001

NOT_RUNNING == -32002

\* interface RequestState, and the handleRun invocation that owns it.
\*   id      : request.id; the session id is derived from it
\*   aborted : abortController.signal.aborted
\*   numTurns: RequestState.numTurns
\*   at      : "agent" awaiting runAgent, "done" handleRun has returned
\*   ended   : history: how runAgent ended, "returned" or "threw"
\*   results : history: the subtypes of the result messages sent under this id
RequestState(id) ==
  [id |-> id, aborted |-> FALSE, numTurns |-> 0, at |-> "agent", ended |-> "",
   results |-> <<>>]

\* createResponse(id, result)
createResponse(id, result) == [id |-> id, result |-> result]

\* createErrorResponse(id, code, message)
createErrorResponse(id, code) == [id |-> id, error |-> code]

\* createResultMessage(sessionId, options): is_error as the caller passes it.
createResultMessage(sessionId, subtype, numTurns) ==
  [type |-> "result", subtype |-> subtype, is_error |-> (subtype = "error"),
   session_id |-> sessionId, num_turns |-> numTurns]

\* Run requests whose agent loop has not returned or thrown yet.
Executing == {r \in DOMAIN requests : requests[r].at = "agent"}

\* handleRun up to its await of runAgent.
handleRun(id, paramsValid) ==
  IF currentRequest # Null
  THEN /\ responses' = <<createErrorResponse(id, ALREADY_RUNNING)>>
       /\ UNCHANGED <<currentRequest, requests>>
  ELSE IF ~paramsValid
  THEN /\ responses' = <<createErrorResponse(id, INVALID_PARAMS)>>
       /\ UNCHANGED <<currentRequest, requests>>
  ELSE /\ requests' = Append(requests, RequestState(id))
       /\ currentRequest' = Len(requests) + 1
       /\ responses' = <<>>

\* handleCancel
handleCancel(id) ==
  IF currentRequest = Null
  THEN /\ responses' = <<createErrorResponse(id, NOT_RUNNING)>>
       /\ UNCHANGED <<currentRequest, requests>>
  ELSE LET cancelled == requests[currentRequest]
       IN /\ currentRequest' = Null
          /\ requests' = [requests EXCEPT
               ![currentRequest].aborted = TRUE,
               ![currentRequest].results = Append(@, "cancelled")]
          /\ responses' =
               <<createResponse(cancelled.id,
                   createResultMessage(cancelled.id, "cancelled",
                                       cancelled.numTurns)),
                 createResponse(id, [type |-> "system", subtype |-> "status",
                                     running |-> FALSE])>>

\* handleStatus
handleStatus(id) ==
  /\ responses' =
       <<createResponse(id, [type |-> "system", subtype |-> "status",
                             running |-> (currentRequest # Null)])>>
  /\ UNCHANGED <<currentRequest, requests>>

\* JsonRpcServer.handleAgentEvent for a tool_result event of the agent loop of
\* request r: counted on whatever request is current, streamed under r's id.
streamAgentEvent(r) ==
  IF currentRequest = Null
  THEN /\ responses' = <<>>
       /\ UNCHANGED requests
  ELSE /\ requests' = [requests EXCEPT ![currentRequest].numTurns = @ + 1]
       /\ responses' =
            <<createResponse(requests[r].id,
                [type |-> "system", subtype |-> "tool_result"])>>

\* handleRun after runAgent has returned: the responses that are sent. Reading
\* this.currentRequest.startTime throws when currentRequest is null, which
\* lands in the catch block.
runReturned(r) ==
  IF requests[r].aborted
  THEN <<>>
  ELSE IF currentRequest = Null
  THEN <<createResponse(requests[r].id,
           createResultMessage(requests[r].id, "error", 0))>>
  ELSE <<createResponse(requests[r].id,
           createResultMessage(requests[r].id, "success",
                               requests[currentRequest].numTurns))>>

\* handleRun's catch block after runAgent has thrown.
runThrew(r) ==
  IF requests[r].aborted
  THEN <<>>
  ELSE <<createResponse(requests[r].id,
           createResultMessage(requests[r].id, "error",
             IF currentRequest = Null THEN 0
             ELSE requests[currentRequest].numTurns))>>

\* What the actions of JsonRpcServer leave alone.
RpcUnchanged ==
  UNCHANGED <<serverVars, ltmVars, agentVars, compactionVars, budgetVars>>

\* A "line" event carrying a run request.
RunLine ==
  /\ Len(rpcLines) < MaxRpcLines
  /\ rpcLines' = Append(rpcLines, "run")
  /\ \E paramsValid \in BOOLEAN : handleRun(Len(rpcLines) + 1, paramsValid)
  /\ RpcUnchanged

\* A "line" event carrying a cancel request.
CancelLine ==
  /\ Len(rpcLines) < MaxRpcLines
  /\ rpcLines' = Append(rpcLines, "cancel")
  /\ handleCancel(Len(rpcLines) + 1)
  /\ RpcUnchanged

\* A "line" event carrying a status request.
StatusLine ==
  /\ Len(rpcLines) < MaxRpcLines
  /\ rpcLines' = Append(rpcLines, "status")
  /\ handleStatus(Len(rpcLines) + 1)
  /\ RpcUnchanged

\* The agent loop of request r reports a tool_result to its event sink.
RpcAgentEvent(r) ==
  /\ r \in Executing
  /\ \A q \in DOMAIN requests : requests[q].numTurns < MaxRpcEvents
  /\ streamAgentEvent(r)
  /\ UNCHANGED <<currentRequest, rpcLines>>
  /\ RpcUnchanged

\* Where the result messages sent in a step are recorded (history).
recordResults(rs, r, sent, how) ==
  [rs EXCEPT ![r].at = "done", ![r].ended = how,
             ![r].results = @ \o [k \in DOMAIN sent |-> sent[k].result.subtype]]

\* runAgent of request r returns: handleRun sends the result and its finally
\* block clears currentRequest.
RunAgentReturns(r) ==
  /\ r \in Executing
  /\ responses' = runReturned(r)
  /\ requests' = recordResults(requests, r, runReturned(r), "returned")
  /\ currentRequest' = Null
  /\ UNCHANGED rpcLines
  /\ RpcUnchanged

\* runAgent of request r throws: handleRun's catch block, then its finally.
RunAgentThrows(r) ==
  /\ r \in Executing
  /\ responses' = runThrew(r)
  /\ requests' = recordResults(requests, r, runThrew(r), "threw")
  /\ currentRequest' = Null
  /\ UNCHANGED rpcLines
  /\ RpcUnchanged

InitRpc ==
  /\ ServerInit /\ LtmIdle /\ AgentIdle /\ CompactionIdle /\ BudgetIdle /\ RpcIdle

RequestIds == 1..MaxRpcLines

NextRpc ==
  \/ RunLine
  \/ CancelLine
  \/ StatusLine
  \/ \E r \in RequestIds : RpcAgentEvent(r)
  \/ \E r \in RequestIds : RunAgentReturns(r)
  \/ \E r \in RequestIds : RunAgentThrows(r)

SpecRpc == InitRpc /\ [][NextRpc]_vars

\* ------------------------------------------------------- JsonRpcServer claims

\* C34: at most one agent loop executes at any time, and a run request read
\* while an agent loop has not returned or thrown yet, a cancelled one
\* included, is answered with the error ALREADY_RUNNING alone, starts no loop
\* and leaves currentRequest and every request's state as they were.
C34_AtMostOneAgentLoop ==
  /\ [](Cardinality(Executing) <= 1)
  /\ [][( /\ Len(rpcLines') = Len(rpcLines) + 1
          /\ rpcLines'[Len(rpcLines')] = "run"
          /\ Executing # {} )
        => /\ responses' = <<createErrorResponse(Len(rpcLines'), ALREADY_RUNNING)>>
           /\ requests' = requests
           /\ currentRequest' = currentRequest
       ]_vars

\* C40: a run request whose handleRun has ended has had exactly one result
\* message, no request ever has more than one, and the subtype is cancelled
\* exactly when a cancel was accepted for it, success when its agent loop
\* returned and no cancel was accepted, error when its agent loop threw and
\* no cancel was accepted.
C40_OneResultMatchingTheEnd ==
  \A r \in DOMAIN requests :
    /\ Len(requests[r].results) <= 1
    /\ requests[r].aborted <=> requests[r].results = <<"cancelled">>
    /\ requests[r].at = "done" =>
         /\ Len(requests[r].results) = 1
         /\ (~requests[r].aborted /\ requests[r].ended = "returned")
              => requests[r].results = <<"success">>
         /\ (~requests[r].aborted /\ requests[r].ended = "threw")
              => requests[r].results = <<"error">>

=============================================================================
